---- MODULE Spec2Model ----
(***************************************************************************)
(* Conditional document assembly core of the petition generator:          *)
(*   src/src/motor_regras.py        structured condition evaluator and    *)
(*                                  section activation engine             *)
(*   src/src/documento_processor.py run-aware placeholder substitution,   *)
(*                                  section mapping, pruning, cleanup     *)
(*   src/main.py                    orchestration of one record           *)
(*                                                                         *)
(* Text is a sequence of one-character strings; offsets are Python's      *)
(* (0-based, end exclusive).  Accented letters of the source's literals   *)
(* are written without the accent (one character each, as in the source). *)
(***************************************************************************)
EXTENDS Integers, Sequences, FiniteSets, TLC

VARIABLES
    pc,                      \* position of main / processar_documento
    dados,                   \* the data record of this run (dados_entrevista)
    definicoes_secoes,       \* MotorRegras.definicoes_secoes, in dict order
    provedor,                \* class of the object injected as motor_regras
    campos,                  \* field metadata table behind obter_campo_por_nome
    modo_estrito,            \* DocumentoProcessor.modo_estrito
    template,                \* paragraphs of the template file (never written)
    doc,                     \* paragraphs of the in-memory document
    secoes_motor,            \* main's secoes_ativas (result of avaliar_secoes_ativas)
    erros_motor,             \* section ids whose rule evaluation was logged as failed
    secoes_ativas,           \* DocumentoProcessor.secoes_ativas
    campos_encontrados,      \* DocumentoProcessor.campos_encontrados
    campos_substituidos,     \* DocumentoProcessor.campos_substituidos
    campos_ausentes,         \* DocumentoProcessor.campos_ausentes
    campos_obrigatorios_ausentes,
    secoes_encontradas,      \* DocumentoProcessor.secoes_encontradas
    secoes_identificadas_pelo_conteudo,
    estatisticas_processamento,
    doc_substituido,         \* the document as _substituir_todos_campos returned it
    secoes_no_documento,     \* local of _processar_secoes_condicionais (the mapping)
    doc_podado,              \* the document after the pruning loop, before cleanup
    limpeza_executada,       \* whether _limpar_documento_apos_processamento ran
    salvo,                   \* whether doc.save(output_path) happened
    erro,                    \* class of the exception that left processar_documento
    completude_exibida,      \* the percentage main's summary prints
    pendentes,               \* the documents still to assemble: record and template
    mesma_instancia,         \* whether the caller keeps one DocumentoProcessor
    locale_pt_br             \* whether locale.setlocale(LC_ALL, 'pt_BR.UTF-8') succeeds

vars == <<pc, dados, definicoes_secoes, provedor, campos, modo_estrito, template,
          doc, secoes_motor, erros_motor, secoes_ativas, campos_encontrados,
          campos_substituidos, campos_ausentes, campos_obrigatorios_ausentes,
          secoes_encontradas, secoes_identificadas_pelo_conteudo,
          estatisticas_processamento, doc_substituido, secoes_no_documento,
          doc_podado, limpeza_executada, salvo, erro, completude_exibida,
          pendentes, mesma_instancia, locale_pt_br>>

----------------------------------------------------------------------------
(* Python str operations on sequences of characters                        *)

Maiusculas == <<"A","B","C","D","E","F","G","H","I","J","K","L","M",
                "N","O","P","Q","R","S","T","U","V","W","X","Y","Z">>
Minusculas == <<"a","b","c","d","e","f","g","h","i","j","k","l","m",
                "n","o","p","q","r","s","t","u","v","w","x","y","z">>
Digitos == <<"0","1","2","3","4","5","6","7","8","9">>

\* the characters of the model in code-point order
Ordem == <<" ", "\"", "#", "$", "'", "*", "+", ",", "-", ".", "/">> \o Digitos
         \o <<":">> \o Maiusculas \o <<"[", "]", "_">> \o Minusculas
         \o <<"{", "}">>

Ord(c) == CHOOSE i \in 1..Len(Ordem) : Ordem[i] = c

EhDigito(c) == \E i \in 1..Len(Digitos) : Digitos[i] = c
ValorDigito(c) == (CHOOSE i \in 1..Len(Digitos) : Digitos[i] = c) - 1
EhMaiuscula(c) == \E i \in 1..Len(Maiusculas) : Maiusculas[i] = c
EhMinuscula(c) == \E i \in 1..Len(Minusculas) : Minusculas[i] = c
EhEspaco(c) == c = " "

LowerChar(c) ==
    IF EhMaiuscula(c)
    THEN Minusculas[CHOOSE i \in 1..Len(Maiusculas) : Maiusculas[i] = c]
    ELSE c

\* s.lower()
Lower(s) == [i \in 1..Len(s) |-> LowerChar(s[i])]

\* s[a:b] for 0 <= a, 0 <= b
Slice(s, a, b) ==
    LET hi == IF b > Len(s) THEN Len(s) ELSE b
    IN  IF a >= hi THEN <<>> ELSE SubSeq(s, a + 1, hi)

\* s[a:]
SliceFrom(s, a) == Slice(s, a, Len(s))

\* s.startswith(p), s.endswith(p)
StartsWith(s, p) == Len(p) <= Len(s) /\ SubSeq(s, 1, Len(p)) = p
EndsWith(s, p) == Len(p) <= Len(s) /\ SubSeq(s, Len(s) - Len(p) + 1, Len(s)) = p

\* p in s, for two str
Contem(s, p) == \E i \in 0..(Len(s) - Len(p)) : Slice(s, i, i + Len(p)) = p

\* s.strip()
Strip(s) ==
    LET naoEsp == {i \in 1..Len(s) : ~EhEspaco(s[i])}
    IN  IF naoEsp = {} THEN <<>>
        ELSE LET a == CHOOSE i \in naoEsp : \A j \in naoEsp : i <= j
                 b == CHOOSE i \in naoEsp : \A j \in naoEsp : i >= j
             IN  SubSeq(s, a, b)

\* s.isdigit()
IsDigit(s) == Len(s) > 0 /\ \A i \in 1..Len(s) : EhDigito(s[i])

\* s.isupper(): at least one cased character and no lowercase one
IsUpper(s) == (\E i \in 1..Len(s) : EhMaiuscula(s[i]))
              /\ (\A i \in 1..Len(s) : ~EhMinuscula(s[i]))

\* int(s) for a str of digits
RECURSIVE IntDe(_)
IntDe(s) == IF s = <<>> THEN 0
            ELSE 10 * IntDe(SubSeq(s, 1, Len(s) - 1)) + ValorDigito(s[Len(s)])

\* str(n) for an int n >= 0
RECURSIVE StrNat(_)
StrNat(n) == IF n < 10 THEN <<Digitos[n + 1]>>
             ELSE StrNat(n \div 10) \o <<Digitos[(n % 10) + 1]>>

\* "".join(lista)
RECURSIVE Join(_)
Join(lista) == IF lista = <<>> THEN <<>> ELSE Head(lista) \o Join(Tail(lista))

\* s1 < s2 for two str (code-point lexicographic order)
RECURSIVE StrMenor(_, _)
StrMenor(s1, s2) ==
    IF s2 = <<>> THEN FALSE
    ELSE IF s1 = <<>> THEN TRUE
    ELSE IF Head(s1) = Head(s2) THEN StrMenor(Tail(s1), Tail(s2))
    ELSE Ord(Head(s1)) < Ord(Head(s2))

\* the elements of a set of integers in ascending order
RECURSIVE Ordenar(_)
Ordenar(S) == IF S = {} THEN <<>>
              ELSE LET m == CHOOSE x \in S : \A y \in S : x <= y
                   IN  <<m>> \o Ordenar(S \ {m})

----------------------------------------------------------------------------
(* Python values: str, int, float (in hundredths), bool, None, list        *)

PyStr(s)   == [t |-> "str",   s |-> s,    n |-> 0, l |-> <<>>]
PyInt(n)   == [t |-> "int",   s |-> <<>>, n |-> n, l |-> <<>>]
PyFloat(c) == [t |-> "float", s |-> <<>>, n |-> c, l |-> <<>>]
PyBool(b)  == [t |-> "bool",  s |-> <<>>, n |-> IF b THEN 1 ELSE 0, l |-> <<>>]
PyNone     == [t |-> "none",  s |-> <<>>, n |-> 0, l |-> <<>>]
PyList(l)  == [t |-> "list",  s |-> <<>>, n |-> 0, l |-> l]

EhNumero(v) == v.t \in {"int", "float", "bool"}
\* the numeric value, in hundredths (bool is an int in Python)
Centesimos(v) == IF v.t = "float" THEN v.n ELSE 100 * v.n

\* the comparison of the types alone, without the values
PyEqPorTipo(a, b) == a.t = b.t

\* a == b
RECURSIVE PyEq(_, _)
PyEq(a, b) ==
    IF EhNumero(a) /\ EhNumero(b) THEN Centesimos(a) = Centesimos(b)
    ELSE IF a.t # b.t THEN FALSE
    ELSE IF a.t = "str" THEN a.s = b.s
    ELSE IF a.t = "list"
         THEN Len(a.l) = Len(b.l) /\ \A i \in 1..Len(a.l) : PyEq(a.l[i], b.l[i])
    ELSE TRUE

\* the outcome of a Python expression: a bool, or the class of the exception raised
Ok(b) == [err |-> "", val |-> b]
Raise(e) == [err |-> e, val |-> FALSE]

\* a < b; the record's values are scalars, so two lists are never ordered
PyLt(a, b) ==
    IF EhNumero(a) /\ EhNumero(b) THEN Ok(Centesimos(a) < Centesimos(b))
    ELSE IF a.t = "str" /\ b.t = "str" THEN Ok(StrMenor(a.s, b.s))
    ELSE Raise("TypeError")

\* a in b
PyIn(a, b) ==
    IF b.t = "list" THEN Ok(\E i \in 1..Len(b.l) : PyEq(a, b.l[i]))
    ELSE IF b.t = "str"
         THEN IF a.t = "str" THEN Ok(Contem(b.s, a.s)) ELSE Raise("TypeError")
    ELSE Raise("TypeError")

Nao(r) == IF r.err # "" THEN r ELSE Ok(~r.val)
Ou(r1, r2) == IF r1.err # "" THEN r1
              ELSE IF r1.val THEN r1 ELSE r2

\* re.match(b, a) for the patterns the model draws: a pattern of plain
\* letters matches as a prefix, the pattern "(" does not compile
PadraoInvalido == <<"(">>
ReMatch(b, a) == IF b = PadraoInvalido THEN Raise("re.error")
                 ELSE Ok(StartsWith(a, b))

\* MotorRegras.operadores
Operadores == {"==", "!=", ">", "<", ">=", "<=", "in", "not_in", "contains",
               "not_contains", "startswith", "endswith", "matches",
               "is_empty", "is_not_empty"}

AplicarOperador(op, a, b) ==
    CASE op = "==" -> Ok(PyEq(a, b))
      [] op = "!=" -> Ok(~PyEq(a, b))
      [] op = ">"  -> PyLt(b, a)
      [] op = "<"  -> PyLt(a, b)
      [] op = ">=" -> IF PyLt(b, a).err # "" THEN PyLt(b, a)
                      ELSE Ok(PyLt(b, a).val \/ PyEq(a, b))
      [] op = "<=" -> IF PyLt(a, b).err # "" THEN PyLt(a, b)
                      ELSE Ok(PyLt(a, b).val \/ PyEq(a, b))
      [] op = "in" -> PyIn(a, b)
      [] op = "not_in" -> Nao(PyIn(a, b))
      [] op = "contains" -> IF a.t = "str" THEN PyIn(b, a) ELSE Ok(FALSE)
      [] op = "not_contains" -> IF a.t = "str" THEN Nao(PyIn(b, a)) ELSE Ok(FALSE)
      [] op = "startswith" ->
            IF a.t # "str" THEN Ok(FALSE)
            ELSE IF b.t = "str" THEN Ok(StartsWith(a.s, b.s)) ELSE Raise("TypeError")
      [] op = "endswith" ->
            IF a.t # "str" THEN Ok(FALSE)
            ELSE IF b.t = "str" THEN Ok(EndsWith(a.s, b.s)) ELSE Raise("TypeError")
      [] op = "matches" ->
            IF a.t = "str" /\ b.t = "str" THEN ReMatch(b.s, a.s) ELSE Ok(FALSE)
      [] op = "is_empty" ->
            Ok(a.t = "none" \/ (a.t = "str" /\ a.s = <<>>)
               \/ (a.t = "list" /\ Len(a.l) = 0))
      [] op = "is_not_empty" ->
            Ok(a.t # "none" /\ ~(a.t = "str" /\ a.s = <<>>)
               /\ (a.t # "list" \/ Len(a.l) > 0))

\* MotorRegras.operadores_logicos
OperadoresLogicos == {"and", "or", "not"}

AplicarOperadorLogico(tipo, resultados) ==
    CASE tipo = "and" -> \A i \in 1..Len(resultados) : resultados[i]
      [] tipo = "or"  -> \E i \in 1..Len(resultados) : resultados[i]
      [] tipo = "not" -> IF resultados # <<>> THEN ~resultados[1] ELSE FALSE

----------------------------------------------------------------------------
(* A condition is a dict: chaves are the keys it holds                     *)

Condicao(chaves, tipo, campo, operador, valor, condicoes) ==
    [chaves |-> chaves, tipo |-> tipo, campo |-> campo, operador |-> operador,
     valor |-> valor, condicoes |-> condicoes]
CondicaoVazia == Condicao({}, "", <<>>, "", PyNone, <<>>)
Folha(campo, operador, valor) ==
    Condicao({"campo", "operador", "valor"}, "", campo, operador, valor, <<>>)
FolhaSemValor(campo, operador) ==
    Condicao({"campo", "operador"}, "", campo, operador, PyNone, <<>>)
Composta(tipo, condicoes) ==
    Condicao({"tipo", "condicoes"}, tipo, <<>>, "", PyNone, condicoes)

\* float(campo) for a decimal literal: optional sign, digits, at most one "."
ParteDecimal(s) ==
    LET pontos == {i \in 1..Len(s) : s[i] = "."}
        p == IF pontos = {} THEN Len(s) + 1 ELSE CHOOSE i \in pontos : TRUE
    IN  [ok |-> Cardinality(pontos) <= 1
                /\ (\A i \in 1..Len(s) : i = p \/ EhDigito(s[i]))
                /\ Len(s) - Cardinality(pontos) > 0,
         inteiro |-> SubSeq(s, 1, p - 1),
         fracao |-> SubSeq(s, p + 1, Len(s))]
SemSinal(t) == IF t # <<>> /\ t[1] \in {"+", "-"} THEN Tail(t) ELSE t
EhFloatLiteral(campo) == ParteDecimal(SemSinal(Strip(campo))).ok
FloatDasPartes(negativo, d) ==
    PyFloat((IF negativo THEN 0 - 1 ELSE 1)
            * (100 * IntDe(d.inteiro) + IntDe(Slice(d.fracao \o <<"0", "0">>, 0, 2))))
FloatDe(campo) ==
    FloatDasPartes(StartsWith(Strip(campo), <<"-">>), ParteDecimal(SemSinal(Strip(campo))))

NoRegistro(campo, registro) == campo \in DOMAIN registro

\* MotorRegras._obter_valor_campo with contexto = {}
ObterValorCampo(campo, registro) ==
    IF StartsWith(campo, <<"$", "{">>) /\ EndsWith(campo, <<"}">>)
    THEN LET ref == Slice(campo, 2, Len(campo) - 1)
         IN  IF NoRegistro(ref, registro) THEN registro[ref] ELSE PyNone
    ELSE IF StartsWith(campo, <<"\"">>) /\ EndsWith(campo, <<"\"">>)
    THEN PyStr(Slice(campo, 1, Len(campo) - 1))
    ELSE IF StartsWith(campo, <<"'">>) /\ EndsWith(campo, <<"'">>)
    THEN PyStr(Slice(campo, 1, Len(campo) - 1))
    ELSE IF IsDigit(campo) THEN PyInt(IntDe(campo))
    ELSE IF EhFloatLiteral(campo) THEN FloatDe(campo)
    ELSE IF Lower(campo) = <<"t","r","u","e">> THEN PyBool(TRUE)
    ELSE IF Lower(campo) = <<"f","a","l","s","e">> THEN PyBool(FALSE)
    ELSE IF Lower(campo) \in {<<"n","u","l","l">>, <<"n","o","n","e">>} THEN PyNone
    ELSE IF NoRegistro(campo, registro) THEN registro[campo]
    ELSE PyNone

\* lines 226-230: an exception of the operator leaves as RegraInvalidaError
ComoRegraInvalida(resultado) ==
    IF resultado.err # "" THEN Raise("RegraInvalidaError") ELSE resultado

\* MotorRegras._avaliar_condicao_simples: every exception leaves as RegraInvalidaError
AvaliarCondicaoSimples(c, registro) ==
    LET temCampo == "campo" \in c.chaves /\ c.campo # <<>>
        temOperador == "operador" \in c.chaves /\ c.operador # ""
        semValor == "valor" \notin c.chaves \/ c.valor.t = "none"
    IN  IF ~temCampo \/ ~temOperador THEN Raise("RegraInvalidaError")
        ELSE IF c.operador \notin Operadores THEN Raise("RegraInvalidaError")
        ELSE IF c.operador \notin {"is_empty", "is_not_empty"} /\ semValor
             THEN Raise("RegraInvalidaError")
        ELSE ComoRegraInvalida(
                AplicarOperador(c.operador, ObterValorCampo(c.campo, registro),
                                IF c.operador \in {"is_empty", "is_not_empty"}
                                THEN PyNone ELSE c.valor))

\* condicao.get("condicoes", [])
SubCondicoes(c) == IF "condicoes" \in c.chaves THEN c.condicoes ELSE <<>>

\* lines 262-286: every sub-condition is evaluated (an exception of one leaves
\* the method), then the logical operator is applied to the results
CombinarResultados(tipo, res) ==
    IF \E i \in 1..Len(res) : res[i].err # "" THEN Raise("RegraInvalidaError")
    ELSE Ok(AplicarOperadorLogico(tipo, [i \in 1..Len(res) |-> res[i].val]))

\* MotorRegras.avaliar_condicao and MotorRegras._avaliar_condicao_composta
RECURSIVE AvaliarCondicao(_, _)
AvaliarCondicaoComposta(c, registro) ==
    IF SubCondicoes(c) = <<>>
    THEN (IF c.tipo \in {"not", "and"} THEN Ok(TRUE) ELSE Ok(FALSE))
    ELSE CombinarResultados(c.tipo,
            [i \in 1..Len(SubCondicoes(c)) |-> AvaliarCondicao(SubCondicoes(c)[i], registro)])

AvaliarCondicao(c, registro) ==
    IF c.chaves = {} THEN Ok(TRUE)
    ELSE IF "tipo" \in c.chaves /\ c.tipo \in OperadoresLogicos
         THEN AvaliarCondicaoComposta(c, registro)
    ELSE AvaliarCondicaoSimples(c, registro)

\* a section definition: id, whether the key regra_ativacao is present, the rule
Definicao(id, tem_regra, regra) == [id |-> id, tem_regra |-> tem_regra, regra |-> regra]

\* a loop that an exception of a rule ends: the sections after d are dropped
JuntarSecaoAbortando(d, r, resto) ==
    IF ~d.tem_regra
    THEN [ativas |-> <<d.id>> \o resto.ativas, erros |-> resto.erros]
    ELSE IF r.err # ""
    THEN [ativas |-> <<>>, erros |-> {d.id}]
    ELSE IF r.val
    THEN [ativas |-> <<d.id>> \o resto.ativas, erros |-> resto.erros]
    ELSE resto

\* lines 124-140: one section d, r the outcome of its rule, resto the result
\* for the sections after it
JuntarSecao(d, r, resto) ==
    IF ~d.tem_regra
    THEN [ativas |-> <<d.id>> \o resto.ativas, erros |-> resto.erros]
    ELSE IF r.err # ""
    THEN [ativas |-> resto.ativas, erros |-> {d.id} \cup resto.erros]
    ELSE IF r.val
    THEN [ativas |-> <<d.id>> \o resto.ativas, erros |-> resto.erros]
    ELSE resto

\* MotorRegras.avaliar_secoes_ativas: the active ids in definition order, and
\* the ids whose rule evaluation raised (logged with logger.error)
RECURSIVE AvaliarSecoesAtivasDe(_, _)
AvaliarSecoesAtivasDe(defs, registro) ==
    IF defs = <<>> THEN [ativas |-> <<>>, erros |-> {}]
    ELSE JuntarSecao(Head(defs), AvaliarCondicao(Head(defs).regra, registro),
                     AvaliarSecoesAtivasDe(Tail(defs), registro))

----------------------------------------------------------------------------
(* The document: a sequence of paragraphs, each a sequence of runs         *)

\* a paragraph: its runs' texts and the format signals the title heuristic reads
Paragrafo(runs, formato) == [runs |-> runs, formato |-> formato]

\* Paragraph.text: the concatenation of the runs' texts
TextoDe(p) == Join(p.runs)

\* the format signals of a paragraph: some run is bold, some run is italic, the
\* style name holds "heading" or "title"
Formato(negrito, italico, estilo_titulo) ==
    [negrito |-> negrito, italico |-> italico, estilo_titulo |-> estilo_titulo]

\* Paragraph.text = t replaces the paragraph's content by one new run holding t
\* (the new run carries no bold or italic; the paragraph style stays)
ComTexto(p, t) ==
    Paragrafo(<<t>>, Formato(FALSE, FALSE, p.formato.estilo_titulo))

EhChave(c) == c \in {"{", "}"}

\* whether the pattern {{[\s]*([^{}]+?)[\s]*}} matches at offset i of t: "{{",
\* one or more characters that are not braces, "}}"
FimDoToken(t, i) ==
    LET chaves == {k \in (i + 3)..Len(t) : EhChave(t[k])}
    IN  IF chaves = {} THEN 0 ELSE CHOOSE k \in chaves : \A j \in chaves : k <= j
FechaEm(t, i, k) ==
    k > i + 3 /\ k + 1 <= Len(t) /\ t[k] = "}" /\ t[k + 1] = "}"
CasaEm(t, i) ==
    /\ i + 2 <= Len(t)
    /\ t[i + 1] = "{" /\ t[i + 2] = "{"
    /\ FechaEm(t, i, FimDoToken(t, i))

\* re.finditer of the placeholder pattern: start, end and the text between the
\* braces of every match, in order (two matches never overlap)
TokensEm(t, ini) ==
    [j \in 1..Len(ini) |->
        [inicio |-> ini[j],
         fim |-> FimDoToken(t, ini[j]) + 1,
         conteudo |-> SubSeq(t, ini[j] + 3, FimDoToken(t, ini[j]) - 1)]]
Tokens(t) == TokensEm(t, Ordenar({i \in 0..(Len(t) - 1) : CasaEm(t, i)}))

\* match.group(1).strip()
NomeDoToken(m) == Strip(m.conteudo)

EhMarcadorDeSecao(nome) == StartsWith(nome, <<"#">>) \/ StartsWith(nome, <<"/">>)

\* the text after the leading whitespace of a token's content
SemEspacoInicial(s) ==
    LET naoEsp == {i \in 1..Len(s) : ~EhEspaco(s[i])}
    IN  IF naoEsp = {} THEN <<>>
        ELSE SubSeq(s, CHOOSE i \in naoEsp : \A j \in naoEsp : i <= j, Len(s))

\* regex_inicio {{[\s]*#([^{}]+?)[\s]*}} and regex_fim {{[\s]*/([^{}]+?)[\s]*}}:
\* the ids of the start (sinal "#") or end (sinal "/") markers of t, in order
IdsDosMarcadores(sel) ==
    [j \in 1..Len(sel) |-> Strip(Tail(SemEspacoInicial(sel[j].conteudo)))]
MarcadoresDe(t, sinal) ==
    LET eh(m) == /\ Len(SemEspacoInicial(m.conteudo)) >= 2
                 /\ SemEspacoInicial(m.conteudo)[1] = sinal
    IN  IdsDosMarcadores(SelectSeq(Tokens(t), eh))

----------------------------------------------------------------------------
(* Field metadata and value formatting                                     *)

\* a metadata dict as obter_campo_por_id builds it: chaves are the keys present
CampoInfo(chaves, obrigatorio, tipo_formatacao, tipo_dado) ==
    [chaves |-> chaves, obrigatorio_quando_ativo |-> obrigatorio,
     tipo_formatacao |-> tipo_formatacao, tipo_dado_programacao |-> tipo_dado]

\* self.motor_regras.obter_campo_por_nome(nome): MotorRegras defines no such
\* method (AttributeError); AdaptadorModeloRelacional returns the dict or None
ProvedorTemMetodo(prov) == prov = "AdaptadorModeloRelacional"
ObterCampoPorNome(nome, ctx) ==
    IF ~ProvedorTemMetodo(ctx.provedor)
    THEN [err |-> "AttributeError", achou |-> FALSE, info |-> CampoInfo({}, FALSE, <<>>, <<>>)]
    ELSE IF nome \in DOMAIN ctx.campos
    THEN [err |-> "", achou |-> ctx.campos[nome].chaves # {}, info |-> ctx.campos[nome]]
    ELSE [err |-> "", achou |-> FALSE, info |-> CampoInfo({}, FALSE, <<>>, <<>>)]

\* str(v)
StrDe(v) ==
    CASE v.t = "str" -> v.s
      [] v.t = "int" -> IF v.n < 0 THEN <<"-">> \o StrNat(0 - v.n) ELSE StrNat(v.n)
      [] v.t = "bool" -> IF v.n = 1 THEN <<"T", "r", "u", "e">> ELSE <<"F", "a", "l", "s", "e">>
      [] v.t = "none" -> <<"N", "o", "n", "e">>
      [] v.t = "float" ->
            LET a == IF v.n < 0 THEN 0 - v.n ELSE v.n
                f == a % 100
                fr == IF f % 10 = 0 THEN StrNat(f \div 10)
                      ELSE StrNat(f \div 10) \o StrNat(f % 10)
            IN  (IF v.n < 0 THEN <<"-">> ELSE <<>>) \o StrNat(a \div 100) \o <<".">> \o fr
      [] v.t = "list" -> <<"[", "]">>

\* bool(v)
Verdadeiro(v) ==
    CASE v.t = "str" -> v.s # <<>>
      [] v.t = "none" -> FALSE
      [] v.t = "list" -> v.l # <<>>
      [] OTHER -> v.n # 0

\* the two digits after the decimal point of '%.2f' % valor
DoisDigitos(f) == StrNat(f \div 10) \o StrNat(f % 10)
\* a separator before every group of three digits, counted from the right
RECURSIVE Agrupar(_, _)
Agrupar(digitos, sep) ==
    IF Len(digitos) <= 3 THEN digitos
    ELSE Agrupar(SubSeq(digitos, 1, Len(digitos) - 3), sep) \o <<sep>>
            \o SubSeq(digitos, Len(digitos) - 2, Len(digitos))
\* s.replace(a, b) for two one-character strings
Replace(s, a, b) == [i \in 1..Len(s) |-> IF s[i] = a THEN b ELSE s[i]]
\* locale.currency(valor, grouping=True, symbol=False) under pt_BR, c the
\* hundredths of a value >= 0: mon_thousands_sep ".", mon_decimal_point ","
CurrencyPtBr(c) == Agrupar(StrNat(c \div 100), ".") \o <<",">> \o DoisDigitos(c % 100)
\* line 1326 with the grouping left out: f"{valor:.2f}".replace('.', ',')
FormatoSimples(c) == Replace(StrNat(c \div 100) \o <<".">> \o DoisDigitos(c % 100), ".", ",")
\* line 1322: f"{valor:,.2f}".replace(",", "X").replace(".", ",").replace("X", ".")
FormatoManual(c) ==
    Replace(Replace(Replace(Agrupar(StrNat(c \div 100), ",") \o <<".">> \o DoisDigitos(c % 100),
                            ",", "X"), ".", ","), "X", ".")
\* DocumentoProcessor._formatar_valor_monetario for a value >= 0: without the
\* pt_BR locale the process keeps the C locale, where locale.currency raises
\* ValueError and the manual format of line 1322 is used
FormatarValorMonetario(v) ==
    IF ~EhNumero(v) THEN StrDe(v)
    ELSE <<"R", "$", " ">> \o (IF locale_pt_br THEN CurrencyPtBr(Centesimos(v))
                                ELSE FormatoManual(Centesimos(v)))

ContemAlgum(s, termos) == \E x \in termos : Contem(s, x)

\* the word lists of _valor_por_extenso (index 0 first)
Unidades == <<<<>>, <<"u", "m">>, <<"d", "o", "i", "s">>, <<"t", "r", "e", "s">>, <<"q", "u", "a", "t", "r", "o">>, <<"c", "i", "n", "c", "o">>, <<"s", "e", "i", "s">>,
              <<"s", "e", "t", "e">>, <<"o", "i", "t", "o">>, <<"n", "o", "v", "e">>>>
Dezenas == <<<<>>, <<"d", "e", "z">>, <<"v", "i", "n", "t", "e">>, <<"t", "r", "i", "n", "t", "a">>, <<"q", "u", "a", "r", "e", "n", "t", "a">>, <<"c", "i", "n", "q", "u", "e", "n", "t", "a">>,
             <<"s", "e", "s", "s", "e", "n", "t", "a">>, <<"s", "e", "t", "e", "n", "t", "a">>, <<"o", "i", "t", "e", "n", "t", "a">>, <<"n", "o", "v", "e", "n", "t", "a">>>>
Centenas == <<<<>>, <<"c", "e", "m">>, <<"d", "u", "z", "e", "n", "t", "o", "s">>, <<"t", "r", "e", "z", "e", "n", "t", "o", "s">>, <<"q", "u", "a", "t", "r", "o", "c", "e", "n", "t", "o", "s">>,
              <<"q", "u", "i", "n", "h", "e", "n", "t", "o", "s">>, <<"s", "e", "i", "s", "c", "e", "n", "t", "o", "s">>, <<"s", "e", "t", "e", "c", "e", "n", "t", "o", "s">>, <<"o", "i", "t", "o", "c", "e", "n", "t", "o", "s">>,
              <<"n", "o", "v", "e", "c", "e", "n", "t", "o", "s">>>>
Especiais == <<<<"o", "n", "z", "e">>, <<"d", "o", "z", "e">>, <<"t", "r", "e", "z", "e">>, <<"q", "u", "a", "t", "o", "r", "z", "e">>, <<"q", "u", "i", "n", "z", "e">>,
               <<"d", "e", "z", "e", "s", "s", "e", "i", "s">>, <<"d", "e", "z", "e", "s", "s", "e", "t", "e">>, <<"d", "e", "z", "o", "i", "t", "o">>, <<"d", "e", "z", "e", "n", "o", "v", "e">>>>

\* the text a call returned, or the class of the exception it raised
Texto(t) == [err |-> "", texto |-> t]
Falhou(e) == [err |-> e, texto |-> <<>>]

\* f"{centena} e {processar_grupo(resto)}"
ComCentena(centena, resto) ==
    IF resto.err # "" THEN resto ELSE Texto(centena \o <<" ", "e", " ">> \o resto.texto)
\* processar_grupo of _valor_por_extenso (lines 1095-1115): centenas[num // 100]
\* is an index into a list of ten words
RECURSIVE ProcessarGrupo(_)
ProcessarGrupo(num) ==
    IF num = 0 THEN Texto(<<>>)
    ELSE IF num <= 9 THEN Texto(Unidades[num + 1])
    ELSE IF num >= 11 /\ num <= 19 THEN Texto(Especiais[num - 10])
    ELSE IF num < 100
    THEN (IF num % 10 # 0
          THEN Texto(Dezenas[(num \div 10) + 1] \o <<" ", "e", " ">> \o Unidades[(num % 10) + 1])
          ELSE Texto(Dezenas[(num \div 10) + 1]))
    ELSE IF num = 100 THEN Texto(<<"c", "e", "m">>)
    ELSE IF num \div 100 >= Len(Centenas) THEN Falhou("IndexError")
    ELSE IF num % 100 = 0 THEN Texto(Centenas[(num \div 100) + 1])
    ELSE ComCentena(Centenas[(num \div 100) + 1], ProcessarGrupo(num % 100))

\* lines 1117-1141: the two parts, each with its unit
TextoDaParte(num, grupo, singular, plural) ==
    IF grupo.err # "" THEN grupo
    ELSE Texto((IF num = 0 THEN <<"z", "e", "r", "o">> ELSE grupo.texto)
               \o (IF num = 1 THEN singular ELSE plural))
JuntarPartes(reais, centavos) ==
    IF reais.err # "" THEN reais
    ELSE IF centavos.err # "" THEN centavos
    ELSE Texto(reais.texto \o <<" ", "e", " ">> \o centavos.texto)
\* DocumentoProcessor._valor_por_extenso for a value >= 0 of c hundredths
ValorPorExtensoDe(parte_inteira, parte_decimal) ==
    JuntarPartes(TextoDaParte(parte_inteira, ProcessarGrupo(parte_inteira),
                              <<" ", "r", "e", "a", "l">>, <<" ", "r", "e", "a", "i", "s">>),
                 TextoDaParte(parte_decimal, ProcessarGrupo(parte_decimal),
                              <<" ", "c", "e", "n", "t", "a", "v", "o">>, <<" ", "c", "e", "n", "t", "a", "v", "o", "s">>))
ValorPorExtenso(v) == ValorPorExtensoDe(Centesimos(v) \div 100, Centesimos(v) % 100)

\* the monetary vocabulary of _processar_runs_fragmentados (line 713)
NomesMonetariosRuns ==
    {<<"v", "a", "l", "o", "r">>, <<"s", "a", "l", "a", "r", "i", "o">>, <<"r", "e", "m", "u", "n", "e", "r", "a", "c", "a", "o">>, <<"v", "e", "n", "c", "i", "m", "e", "n", "t", "o">>, <<"s", "u", "b", "s", "i", "d", "i", "o">>,
     <<"p", "r", "o", "v", "e", "n", "t", "o", "s">>}
\* the monetary vocabulary of _substituir_campos (lines 855-856)
NomesMonetariosSub ==
    NomesMonetariosRuns \cup {<<"m", "o", "n", "t", "a", "n", "t", "e">>, <<"i", "m", "p", "o", "r", "t", "a", "n", "c", "i", "a">>, <<"q", "u", "a", "n", "t", "i", "a">>,
                              <<"b", "r", "u", "t", "o">>, <<"l", "i", "q", "u", "i", "d", "o">>, <<"t", "o", "t", "a", "l">>}

\* lines 721-725 and 869-872: the written-out branch
PorExtenso(valor, r) ==
    /\ r.achou /\ "tipo_dado_programacao" \in r.info.chaves
    /\ Contem(Lower(r.info.tipo_dado_programacao), <<"e", "x", "t", "e", "n", "s", "o">>)
    /\ EhNumero(valor)
TextoDoValor(valor, r) ==
    IF PorExtenso(valor, r) THEN ValorPorExtenso(valor).texto
    ELSE IF valor.t = "none" THEN <<>> ELSE StrDe(valor)
ErroDoValor(valor, r) ==
    IF PorExtenso(valor, r) THEN ValorPorExtenso(valor).err ELSE ""

\* lines 694-712: whether the field is a monetary one
TipoMonetarioRuns(nome, r) ==
    LET tf == r.info.tipo_formatacao
        td == Lower(r.info.tipo_dado_programacao)
        porFormato == r.achou /\ "tipo_formatacao" \in r.info.chaves /\ tf # <<>>
                      /\ (Contem(tf, <<"#", ".", "#", "#", "0", ",", "0", "0">>) \/ Contem(Lower(tf), <<"d", "i", "n", "h", "e", "i", "r", "o">>)
                          \/ Contem(Lower(tf), <<"m", "o", "n", "e", "t", "a", "r", "i", "o">>))
        porTipo == r.achou /\ "tipo_dado_programacao" \in r.info.chaves
                   /\ ContemAlgum(td, {<<"d", "i", "n", "h", "e", "i", "r", "o">>, <<"m", "o", "e", "d", "a">>, <<"v", "a", "l", "o", "r">>, <<"s", "a", "l", "a", "r", "i", "o">>})
    IN  porFormato \/ porTipo \/ ContemAlgum(Lower(nome), NomesMonetariosRuns)
\* lines 690-726: the replacement text of a field present in the record, and
\* the exception its formatting raises
ValorFormatadoRuns(nome, valor, r) ==
    IF TipoMonetarioRuns(nome, r) /\ EhNumero(valor) THEN FormatarValorMonetario(valor)
    ELSE TextoDoValor(valor, r)
ErroDoFormatoRuns(nome, valor, r) ==
    IF TipoMonetarioRuns(nome, r) /\ EhNumero(valor) THEN "" ELSE ErroDoValor(valor, r)

\* lines 835-857: whether the field is a monetary one
TipoMonetarioSub(nome, r) ==
    LET tf == r.info.tipo_formatacao
        td == Lower(r.info.tipo_dado_programacao)
        porFormato == r.achou /\ "tipo_formatacao" \in r.info.chaves /\ tf # <<>>
                      /\ ContemAlgum(Lower(tf), {<<"#", ".", "#", "#", "0", ",", "0", "0">>, <<"d", "i", "n", "h", "e", "i", "r", "o">>,
                                                 <<"m", "o", "n", "e", "t", "a", "r", "i", "o">>, <<"m", "o", "e", "d", "a">>, <<"r", "$">>})
        porTipo == r.achou /\ "tipo_dado_programacao" \in r.info.chaves /\ ~porFormato
                   /\ ContemAlgum(td, {<<"d", "i", "n", "h", "e", "i", "r", "o">>, <<"m", "o", "e", "d", "a">>, <<"v", "a", "l", "o", "r">>,
                                       <<"s", "a", "l", "a", "r", "i", "o">>, <<"m", "o", "n", "e", "t", "a", "r", "i", "o">>})
    IN  porFormato \/ porTipo \/ ContemAlgum(Lower(nome), NomesMonetariosSub)
\* lines 835-874: the replacement text _substituir_campos returns for a field
\* present in the record, and the exception its formatting raises
ValorFormatadoSub(nome, valor, r) ==
    IF TipoMonetarioSub(nome, r) /\ EhNumero(valor) THEN FormatarValorMonetario(valor)
    ELSE TextoDoValor(valor, r)
ErroDoFormatoSub(nome, valor, r) ==
    IF TipoMonetarioSub(nome, r) /\ EhNumero(valor) THEN "" ELSE ErroDoValor(valor, r)

\* f"**[CAMPO OBRIGATORIO: {nome_campo}]**"
MarcadorObrigatorio(nome) == <<"*", "*", "[", "C", "A", "M", "P", "O", " ", "O", "B", "R", "I", "G", "A", "T", "O", "R", "I", "O", ":", " ">> \o nome \o <<"]", "*", "*">>

\* obrigatorio = campo_info['obrigatorio_quando_ativo'] when the key is there
Obrigatorio(r) == r.achou /\ "obrigatorio_quando_ativo" \in r.info.chaves
                  /\ r.info.obrigatorio_quando_ativo

----------------------------------------------------------------------------
(* Run-aware placeholder substitution                                      *)

\* what the substitution reads besides the document
Contexto(registro, prov, meta) == [dados |-> registro, provedor |-> prov, campos |-> meta]

\* the four placeholder sets of the processor
Conjuntos(e, s, a, o) ==
    [encontrados |-> e, substituidos |-> s, ausentes |-> a, obrigatorios |-> o]

\* lines 647-677: the runs a match [inicio, fim) touches and the offsets inside
\* each, computed from runs_texto (the run texts read at line 614)
PosicaoDaRun(runs_texto, i) == Len(Join(SubSeq(runs_texto, 1, i - 1)))
\* lines 656-675 for run i, which holds tam characters from offset posicao_atual
InfoDaRun(i, posicao_atual, tam, inicio, fim) ==
    IF posicao_atual <= inicio /\ inicio < posicao_atual + tam
    THEN [run |-> i, afetada |-> TRUE, ini |-> inicio - posicao_atual,
          fim |-> IF tam < fim - posicao_atual THEN tam ELSE fim - posicao_atual]
    ELSE IF posicao_atual > inicio /\ posicao_atual + tam < fim
    THEN [run |-> i, afetada |-> TRUE, ini |-> 0, fim |-> tam]
    ELSE IF posicao_atual < fim /\ fim <= posicao_atual + tam /\ posicao_atual > inicio
    THEN [run |-> i, afetada |-> TRUE, ini |-> 0, fim |-> fim - posicao_atual]
    ELSE [run |-> i, afetada |-> FALSE, ini |-> 0, fim |-> 0]
RunsAfetadas(runs_texto, inicio, fim) ==
    LET ehAfetada(x) == x.afetada
    IN  SelectSeq([i \in 1..Len(runs_texto) |->
                      InfoDaRun(i, PosicaoDaRun(runs_texto, i), Len(runs_texto[i]),
                                inicio, fim)], ehAfetada)

\* lines 729-760 (and 783-799): write the replacement into the first affected
\* run, clear the other affected runs, then keep the tail of the last one
EscreverPrimeira(runs, primeira, texto) ==
    [runs EXCEPT ![primeira.run] = Slice(runs[primeira.run], 0, primeira.ini) \o texto]
LimparOutras(runs, afetadas) ==
    [i \in 1..Len(runs) |->
        IF \E j \in 2..Len(afetadas) : afetadas[j].run = i THEN <<>> ELSE runs[i]]
ManterFinal(runs, afetadas, ultima) ==
    IF Len(afetadas) > 1
    THEN [runs EXCEPT ![ultima.run] =
              IF ultima.fim < Len(runs[ultima.run])
              THEN SliceFrom(runs[ultima.run], ultima.fim)
              ELSE <<>>]
    ELSE runs
AplicarNasRuns(runs, afetadas, texto) ==
    IF afetadas = <<>> THEN runs
    ELSE ManterFinal(LimparOutras(EscreverPrimeira(runs, afetadas[1], texto), afetadas),
                     afetadas, afetadas[Len(afetadas)])

\* the state threaded through one paragraph: its runs, the sets, whether a data
\* placeholder was seen, and the exception that ended the pass (if any)
EstadoRuns(runs, cj, processou, err) ==
    [runs |-> runs, cj |-> cj, processou |-> processou, erro |-> err]

\* the same without the registration of line 644
ProcessarPresenteSemRegistro(st, nome_campo, afetadas, r, falha, ctx) ==
    EstadoRuns(
        IF falha # "" THEN st.runs
        ELSE AplicarNasRuns(st.runs, afetadas,
                 ValorFormatadoRuns(nome_campo, ctx.dados[nome_campo], r)),
        [st.cj EXCEPT !.substituidos = @ \cup {nome_campo}],
        TRUE, falha)
\* lines 644 and 683-760: the field is in the record; falha is the exception of the
\* metadata lookup or of the formatting, raised before a run is written
ProcessarPresente(st, nome_campo, afetadas, r, falha, ctx) ==
    EstadoRuns(
        IF falha # "" THEN st.runs
        ELSE AplicarNasRuns(st.runs, afetadas,
                 ValorFormatadoRuns(nome_campo, ctx.dados[nome_campo], r)),
        [st.cj EXCEPT !.encontrados = @ \cup {nome_campo},
                      !.substituidos = @ \cup {nome_campo}],
        TRUE, falha)
\* lines 683-799: the match of field nome_campo over the runs afetadas, r the
\* outcome of the metadata lookup
ProcessarCampo(st, nome_campo, afetadas, r, ctx) ==
    IF NoRegistro(nome_campo, ctx.dados)
    THEN ProcessarPresente(st, nome_campo, afetadas, r,
            IF r.err # "" THEN r.err
            ELSE ErroDoFormatoRuns(nome_campo, ctx.dados[nome_campo], r), ctx)
    ELSE EstadoRuns(
            IF r.err # "" THEN st.runs
            ELSE AplicarNasRuns(st.runs, afetadas,
                     IF Obrigatorio(r) THEN MarcadorObrigatorio(nome_campo) ELSE <<>>),
            [st.cj EXCEPT !.encontrados = @ \cup {nome_campo},
                          !.ausentes = @ \cup {nome_campo},
                          !.obrigatorios = IF r.err = "" /\ Obrigatorio(r)
                                           THEN @ \cup {nome_campo} ELSE @],
            TRUE, r.err)

\* lines 629-681: one match of the loop
ProcessarMatchDe(st, runs_texto, m, nome_campo, ctx) ==
    IF st.erro # "" THEN st
    ELSE IF EhMarcadorDeSecao(nome_campo) THEN st
    ELSE ProcessarCampo(st, nome_campo, RunsAfetadas(runs_texto, m.inicio, m.fim),
                        ObterCampoPorNome(nome_campo, ctx), ctx)
ProcessarMatch(st, runs_texto, m, ctx) ==
    ProcessarMatchDe(st, runs_texto, m, NomeDoToken(m), ctx)

RECURSIVE ProcessarMatches(_, _, _, _)
ProcessarMatches(st, runs_texto, ms, ctx) ==
    IF ms = <<>> THEN st
    ELSE ProcessarMatches(ProcessarMatch(st, runs_texto, Head(ms), ctx),
                          runs_texto, Tail(ms), ctx)

\* DocumentoProcessor._processar_runs_fragmentados
ProcessarRunsFragmentados(p, cj, ctx) ==
    ProcessarMatches(EstadoRuns(p.runs, cj, FALSE, ""), p.runs, Tokens(Join(p.runs)), ctx)

\* DocumentoProcessor._substituir_campos: re.sub over the text; the state is the
\* text built so far, the sets and the exception (if any)
\* lines 814-892: the callback of re.sub for the match of nome_campo, literal
\* the text between the previous match and this one, r the metadata lookup
SubstituirCampo(st, literal, original, nome_campo, r, ctx) ==
    IF st.erro # "" THEN st
    ELSE IF EhMarcadorDeSecao(nome_campo)
    THEN [st EXCEPT !.texto = @ \o literal \o original]
    ELSE IF r.err # "" THEN [st EXCEPT !.erro = r.err]
    ELSE IF NoRegistro(nome_campo, ctx.dados)
    THEN (IF ErroDoFormatoSub(nome_campo, ctx.dados[nome_campo], r) # ""
          THEN [st EXCEPT !.erro = ErroDoFormatoSub(nome_campo, ctx.dados[nome_campo], r),
                          !.cj.substituidos = @ \cup {nome_campo}]
          ELSE [st EXCEPT !.texto = @ \o literal
                              \o ValorFormatadoSub(nome_campo, ctx.dados[nome_campo], r),
                          !.cj.substituidos = @ \cup {nome_campo}])
    ELSE IF Obrigatorio(r)
    THEN [st EXCEPT !.texto = @ \o literal \o MarcadorObrigatorio(nome_campo),
                    !.cj.ausentes = @ \cup {nome_campo},
                    !.cj.obrigatorios = @ \cup {nome_campo}]
    ELSE [st EXCEPT !.texto = @ \o literal,
                    !.cj.ausentes = @ \cup {nome_campo}]
SubstituirMatch(st, texto, m, anterior, ctx) ==
    SubstituirCampo(st, Slice(texto, anterior, m.inicio), Slice(texto, m.inicio, m.fim),
                    NomeDoToken(m), ObterCampoPorNome(NomeDoToken(m), ctx), ctx)

RECURSIVE SubstituirMatches(_, _, _, _, _)
SubstituirMatches(st, texto, ms, anterior, ctx) ==
    IF ms = <<>>
    THEN (IF st.erro # "" THEN st ELSE [st EXCEPT !.texto = @ \o SliceFrom(texto, anterior)])
    ELSE SubstituirMatches(SubstituirMatch(st, texto, Head(ms), anterior, ctx),
                           texto, Tail(ms), Head(ms).fim, ctx)

SubstituirCampos(texto, cj, ctx) ==
    SubstituirMatches([texto |-> <<>>, cj |-> cj, erro |-> ""], texto,
                      Tokens(texto), 0, ctx)

\* lines 1489-1502: one paragraph of _substituir_todos_campos; escreveu tells
\* whether a run text or the paragraph text was assigned
ResultadoParagrafo(p, cj, err, escreveu) ==
    [p |-> p, cj |-> cj, erro |-> err, escreveu |-> escreveu]
\* lines 1497-1501: s is what _substituir_campos made of texto_original
AplicarTextoSubstituido(p, texto_original, s) ==
    IF s.erro # "" THEN ResultadoParagrafo(p, s.cj, s.erro, FALSE)
    ELSE IF s.texto # texto_original
    THEN ResultadoParagrafo(ComTexto(p, s.texto), s.cj, "", TRUE)
    ELSE ResultadoParagrafo(p, s.cj, "", FALSE)
\* the paragraph-level pass without the guards of lines 1496 and 1500: the text
\* _substituir_campos returns is assigned whatever it is
AposRunsSemGuarda(p, f, texto_original, ctx) ==
    IF f.erro # "" \/ f.processou
    THEN ResultadoParagrafo([p EXCEPT !.runs = f.runs], f.cj, f.erro,
                            f.runs # p.runs \/ (f.processou /\ f.erro = ""))
    ELSE ResultadoParagrafo(ComTexto(p, SubstituirCampos(texto_original, f.cj, ctx).texto),
                            f.cj, "", TRUE)
\* lines 1494-1496: f is what _processar_runs_fragmentados left; it assigned
\* run texts (lines 740-757) when it processed a placeholder
AposRunsFragmentados(p, f, texto_original, ctx) ==
    IF f.erro # "" \/ f.processou
    THEN ResultadoParagrafo([p EXCEPT !.runs = f.runs], f.cj, f.erro,
                            f.runs # p.runs \/ (f.processou /\ f.erro = ""))
    ELSE IF Contem(texto_original, <<"{", "{">>) /\ Contem(texto_original, <<"}", "}">>)
    THEN AplicarTextoSubstituido(p, texto_original,
                                 SubstituirCampos(texto_original, f.cj, ctx))
    ELSE ResultadoParagrafo(p, f.cj, "", FALSE)
SubstituirParagrafo(p, cj, ctx) ==
    AposRunsFragmentados(p, ProcessarRunsFragmentados(p, cj, ctx), TextoDe(p), ctx)

\* DocumentoProcessor._substituir_todos_campos over the body paragraphs (the
\* cells of tables and the header and footer paragraphs go through the same
\* lines 1491-1501 and are not part of the model's document); escritas counts
\* the paragraphs it assigned to
RECURSIVE SubstituirTodosCamposDe(_, _, _)
ResultadoDocumento(d, cj, err, escritas) ==
    [doc |-> d, cj |-> cj, erro |-> err, escritas |-> escritas]
AnteporParagrafo(um, resto) ==
    ResultadoDocumento(<<um.p>> \o resto.doc, resto.cj, resto.erro,
                       resto.escritas + (IF um.escreveu THEN 1 ELSE 0))
\* um is the outcome for the first paragraph of d; an exception ends the loop
SeguirSubstituindo(d, um, ctx) ==
    IF um.erro # ""
    THEN ResultadoDocumento(<<um.p>> \o Tail(d), um.cj, um.erro,
                            IF um.escreveu THEN 1 ELSE 0)
    ELSE AnteporParagrafo(um, SubstituirTodosCamposDe(Tail(d), um.cj, ctx))
SubstituirTodosCamposDe(d, cj, ctx) ==
    IF d = <<>> THEN ResultadoDocumento(<<>>, cj, "", 0)
    ELSE SeguirSubstituindo(d, SubstituirParagrafo(Head(d), cj, ctx), ctx)

----------------------------------------------------------------------------
(* Sections: the processor's own table, boundary mapping, pruning, cleanup *)

EntradaMapeamento(id, campo_condicional, valor_ativo, palavras_chave) ==
    [id |-> id, campo_condicional |-> campo_condicional,
     valor_ativo |-> valor_ativo, palavras_chave |-> palavras_chave]

\* DocumentoProcessor.mapeamento_secoes, in dict order
MapeamentoSecoes ==
    << EntradaMapeamento(<<"H", "O", "R", "A", "S", "_", "E", "X", "T", "R", "A", "S">>, <<"c", "a", "l", "c", "u", "l", "a", "r", "_", "h", "o", "r", "a", "s", "_", "e", "x", "t", "r", "a", "s">>, <<"S", "i", "m">>,
          <<<<"h", "o", "r", "a", " ", "e", "x", "t", "r", "a">>, <<"h", "o", "r", "a", "s", " ", "e", "x", "t", "r", "a", "s">>, <<"j", "o", "r", "n", "a", "d", "a">>, <<"s", "o", "b", "r", "e", "j", "o", "r", "n", "a", "d", "a">>>>),
       EntradaMapeamento(<<"V", "E", "R", "B", "A", "S", "_", "R", "E", "S", "C", "I", "S", "O", "R", "I", "A", "S">>, <<"m", "o", "t", "i", "v", "o", "_", "r", "e", "s", "c", "i", "s", "a", "o">>,
          <<"d", "e", "m", "i", "s", "s", "a", "o", " ", "s", "e", "m", " ", "j", "u", "s", "t", "a", " ", "c", "a", "u", "s", "a">>,
          <<<<"v", "e", "r", "b", "a", " ", "r", "e", "s", "c", "i", "s", "o", "r", "i", "a">>, <<"v", "e", "r", "b", "a", "s", " ", "r", "e", "s", "c", "i", "s", "o", "r", "i", "a", "s">>, <<"r", "e", "s", "c", "i", "s", "a", "o">>, <<"v", "e", "r", "b", "a", "s">>>>),
       EntradaMapeamento(<<"a", "v", "i", "s", "o", "_", "p", "r", "e", "v", "i", "o">>, <<"d", "i", "a", "s", "_", "a", "v", "i", "s", "o", "_", "p", "r", "e", "v", "i", "o", "_", "b", "a", "s", "e", "_", "c", "a", "l", "c", "u", "l", "o">>,
          <<"3", "0", " ", "d", "i", "a", "s">>, <<<<"a", "v", "i", "s", "o", " ", "p", "r", "e", "v", "i", "o">>, <<"a", "v", "i", "s", "o", "-", "p", "r", "e", "v", "i", "o">>>>),
       EntradaMapeamento(<<"a", "c", "u", "m", "u", "l", "o", "_", "f", "u", "n", "c", "a", "o">>, <<"c", "a", "l", "c", "u", "l", "a", "r", "_", "a", "c", "u", "m", "u", "l", "o", "_", "f", "u", "n", "c", "a", "o">>, <<"S", "i", "m">>,
          <<<<"a", "c", "u", "m", "u", "l", "o", " ", "d", "e", " ", "f", "u", "n", "c", "a", "o">>, <<"a", "c", "u", "m", "u", "l", "o", " ", "d", "e", " ", "f", "u", "n", "c", "a", "o">>, <<"d", "e", "s", "v", "i", "o", " ", "d", "e", " ", "f", "u", "n", "c", "a", "o">>>>),
       EntradaMapeamento(<<"I", "N", "S", "A", "L", "U", "B", "R", "I", "D", "A", "D", "E">>, <<"c", "a", "l", "c", "u", "l", "a", "r", "_", "i", "n", "s", "a", "l", "u", "b", "r", "i", "d", "a", "d", "e">>, <<"S", "i", "m">>,
          <<<<"i", "n", "s", "a", "l", "u", "b", "r", "i", "d", "a", "d", "e">>, <<"a", "m", "b", "i", "e", "n", "t", "e", " ", "i", "n", "s", "a", "l", "u", "b", "r", "e">>,
            <<"a", "d", "i", "c", "i", "o", "n", "a", "l", " ", "d", "e", " ", "i", "n", "s", "a", "l", "u", "b", "r", "i", "d", "a", "d", "e">>>>) >>

ValoresSim == PyList(<<PyStr(<<"S", "i", "m">>), PyStr(<<"s", "i", "m">>), PyStr(<<"S">>), PyStr(<<"s">>),
                       PyBool(TRUE), PyInt(1), PyStr(<<"1">>)>>)
ValoresNao == PyList(<<PyStr(<<"N", "a", "o">>), PyStr(<<"n", "a", "o">>), PyStr(<<"n", "a", "o">>), PyStr(<<"N">>),
                       PyStr(<<"n">>), PyBool(FALSE), PyInt(0), PyStr(<<"0">>)>>)

\* lines 1356-1374: whether one entry of the table is activated by the record
ValorAtiva(e, valor_real) ==
    \/ e.valor_ativo = <<"S", "i", "m">> /\ PyIn(valor_real, ValoresSim).val
    \/ e.valor_ativo = <<"N", "a", "o">> /\ PyIn(valor_real, ValoresNao).val
    \/ Lower(StrDe(valor_real)) = Lower(e.valor_ativo)
    \/ /\ Contem(e.campo_condicional, <<"d", "i", "a", "s", "_", "a", "v", "i", "s", "o", "_", "p", "r", "e", "v", "i", "o">>)
       /\ Verdadeiro(valor_real)
       /\ StrDe(valor_real) # <<"0">>
EntradaAtiva(e, registro) ==
    /\ NoRegistro(e.campo_condicional, registro)
    /\ ValorAtiva(e, registro[e.campo_condicional])

\* DocumentoProcessor._determinar_secoes_ativas
IdsDe(entradas) == [i \in 1..Len(entradas) |-> entradas[i].id]
DeterminarSecoesAtivas(registro) ==
    LET ativa(e) == EntradaAtiva(e, registro)
    IN  IdsDe(SelectSeq(MapeamentoSecoes, ativa))

\* id in lista
NaLista(id, lista) == \E i \in 1..Len(lista) : lista[i] = id

\* one mapped section: 0-based indices of its first and last paragraph
Limite(inicio, fim, incompleta) ==
    [inicio |-> inicio, fim |-> fim, incompleta |-> incompleta]

\* d[chave] = valor on a dict kept as a function
Atribuir(d, chave, valor) ==
    [k \in DOMAIN d \cup {chave} |-> IF k = chave THEN valor ELSE d[k]]
\* del d[chave]
Remover(d, chave) == [k \in DOMAIN d \ {chave} |-> d[k]]

\* lines 377-389: every start marker of paragraph i (re)opens its id at i
AbrirSecoes(abertas, ids, i) ==
    [k \in DOMAIN abertas \cup {ids[j] : j \in 1..Len(ids)} |->
        IF NaLista(k, ids) THEN i ELSE abertas[k]]

\* lines 392-424: the end markers of paragraph i, in order
RECURSIVE FecharSecoes(_, _, _)
\* an end marker that closes a section even when none is open
FecharSecaoSemAbertura(st, secao_id, i) ==
    [st EXCEPT !.mapeamento =
                   Atribuir(@, secao_id,
                            Limite(IF secao_id \in DOMAIN st.abertas
                                   THEN st.abertas[secao_id] ELSE i, i, FALSE)),
               !.abertas = Remover(@, secao_id)]
FecharSecao(st, secao_id, i) ==
    IF secao_id \in DOMAIN st.abertas
    THEN [st EXCEPT !.mapeamento =
                        Atribuir(@, secao_id, Limite(st.abertas[secao_id], i, FALSE)),
                    !.abertas = Remover(@, secao_id)]
    ELSE [st EXCEPT !.orfaos = @ \cup {secao_id}]
FecharSecoes(st, ids, i) ==
    IF ids = <<>> THEN st
    ELSE FecharSecoes(FecharSecao(st, Head(ids), i), Tail(ids), i)

\* lines 361-424: the loop over the paragraphs, from paragraph i on
RECURSIVE MapearMarcadores(_, _, _)
MapearMarcadores(d, st, i) ==
    IF i >= Len(d) THEN st
    ELSE MapearMarcadores(d,
            FecharSecoes([st EXCEPT !.abertas =
                             AbrirSecoes(@, MarcadoresDe(TextoDe(d[i + 1]), "#"), i)],
                         MarcadoresDe(TextoDe(d[i + 1]), "/"), i),
            i + 1)

\* lines 427-440: sections left open are mapped to the end of the document
FecharIncompletas(d, st) ==
    [k \in DOMAIN st.mapeamento \cup DOMAIN st.abertas |->
        IF k \in DOMAIN st.abertas
        THEN Limite(st.abertas[k], Len(d) - 1, TRUE)
        ELSE st.mapeamento[k]]

\* the mapping by explicit markers (lines 340-448) and the end markers met
\* while their section was not open
ResultadoDosMarcadores(d, st) ==
    [mapeamento |-> FecharIncompletas(d, st), orfaos |-> st.orfaos,
     abertas |-> DOMAIN st.abertas]
MapearPorMarcadores(d) ==
    ResultadoDosMarcadores(d,
        MapearMarcadores(d, [abertas |-> <<>>, mapeamento |-> <<>>, orfaos |-> {}], 0))

\* re.match(r'^\d+[\.\)\-]', texto)
ComecaComNumeracao(texto) ==
    \E k \in 1..(Len(texto) - 1) :
        /\ \A j \in 1..k : EhDigito(texto[j])
        /\ texto[k + 1] \in {".", ")", "-"}

\* lines 1169-1207: the title score from the stripped text and the format
PontuacaoDoTexto(texto, formato) ==
    (IF IsUpper(texto) /\ Len(texto) > 3 THEN 3 ELSE 0)
    + (IF formato.negrito THEN 3 ELSE 0)
    + (IF formato.italico THEN 1 ELSE 0)
    + (IF formato.estilo_titulo THEN 5 ELSE 0)
    + (IF Len(texto) < 50 THEN 1 ELSE 0)
    + (IF ComecaComNumeracao(texto) THEN 2 ELSE 0)
PontuacaoTitulo(p) == PontuacaoDoTexto(Strip(TextoDe(p)), p.formato)

\* lines 1212-1218: 3 points for every keyword of the entry found in the text
PontuacaoPalavras(texto, palavras_chave) ==
    3 * Cardinality({k \in 1..Len(palavras_chave) : Contem(texto, Lower(palavras_chave[k]))})
PontuacaoSecao(p, e) == PontuacaoPalavras(Lower(Strip(TextoDe(p))), e.palavras_chave)

\* lines 1165, 1221-1226: the final score of a paragraph for an entry, 0 when
\* the paragraph is empty or does not reach the thresholds
PontuacaoAceita(vazio, titulo, secao) ==
    IF ~vazio /\ secao >= 3 /\ titulo + secao >= 5 THEN titulo + secao ELSE 0
PontuacaoFinal(p, e) ==
    PontuacaoAceita(Strip(TextoDe(p)) = <<>>, PontuacaoTitulo(p), PontuacaoSecao(p, e))

\* the final scores of every paragraph (row k: entry k of the table; column
\* i: paragraph i, 0-based)
PontuacoesDe(d) ==
    [k \in 1..Len(MapeamentoSecoes) |->
        [i \in 0..(Len(d) - 1) |-> PontuacaoFinal(d[i + 1], MapeamentoSecoes[k])]]

\* lines 1228-1237: the first paragraph holding the highest score wins
TituloDe(pont) ==
    CHOOSE i \in DOMAIN pont :
        /\ pont[i] > 0
        /\ \A j \in DOMAIN pont : pont[j] <= pont[i] /\ (j < i => pont[j] < pont[i])
\* the first paragraph that put the section in secoes_identificadas
PrimeiroDe(pont) ==
    CHOOSE i \in DOMAIN pont : pont[i] > 0 /\ \A j \in DOMAIN pont : j < i => pont[j] = 0

\* lines 1248-1266: the entries identified, sorted by title index (ties in
\* dict insertion order: first paragraph that identified them, then table order)
Identificadas(pts) == {k \in DOMAIN pts : \E i \in DOMAIN pts[k] : pts[k][i] > 0}
ChaveDeOrdem(pts, k, n) ==
    (TituloDe(pts[k]) * (n + Len(pts) + 1) + PrimeiroDe(pts[k])) * (n + Len(pts) + 1) + k
SecoesOrdenadas(pts, n) ==
    [m \in 1..Cardinality(Identificadas(pts)) |->
        CHOOSE k \in Identificadas(pts) :
            Cardinality({j \in Identificadas(pts) :
                            ChaveDeOrdem(pts, j, n) < ChaveDeOrdem(pts, k, n)}) + 1 = m]

\* each section ends before the next title or at the last paragraph
LimitesPorTitulo(pts, ord, n) ==
    [id \in {MapeamentoSecoes[ord[m]].id : m \in 1..Len(ord)} |->
        LET m == CHOOSE x \in 1..Len(ord) : MapeamentoSecoes[ord[x]].id = id
        IN  Limite(TituloDe(pts[ord[m]]),
                   IF m < Len(ord) THEN TituloDe(pts[ord[m + 1]]) - 1 ELSE n - 1,
                   FALSE)]

\* DocumentoProcessor._injetar_marcadores_secao: the new value of
\* secoes_identificadas_pelo_conteudo (the old one when nothing is identified)
InjetarCom(pts, n, anteriores) ==
    IF Identificadas(pts) = {} THEN anteriores
    ELSE LimitesPorTitulo(pts, SecoesOrdenadas(pts, n), n)
InjetarMarcadoresSecao(d, anteriores) == InjetarCom(PontuacoesDe(d), Len(d), anteriores)

\* DocumentoProcessor._mapear_secoes_por_titulos: doc.paragraphs[titulo_idx]
\* raises IndexError when the recorded index is beyond the document
MapearSecoesPorTitulos(d, identificadas) ==
    [erro |-> IF \E id \in DOMAIN identificadas : identificadas[id].inicio >= Len(d)
              THEN "IndexError" ELSE "",
     mapeamento |-> identificadas, identificadas |-> identificadas,
     por_titulos |-> TRUE]

\* lines 451-455: the titles are tried only when no marker was mapped
EscolherMapeamento(m, d, anteriores) ==
    IF DOMAIN m.mapeamento # {}
    THEN [erro |-> "", mapeamento |-> m.mapeamento, identificadas |-> anteriores,
          por_titulos |-> FALSE]
    ELSE MapearSecoesPorTitulos(d, InjetarMarcadoresSecao(d, anteriores))

\* DocumentoProcessor._mapear_secoes_no_documento
MapearSecoesNoDocumento(d, anteriores) ==
    EscolherMapeamento(MapearPorMarcadores(d), d, anteriores)

\* info['elementos']: the paragraphs (0-based) of a mapped section
Elementos(d, lim) == {i \in lim.inicio..lim.fim : i < Len(d)}

\* lines 229-250: elemento.text = "" and then every run's text = ""
ParagrafoLimpo(p) == ComTexto(p, <<>>)
Podar(d, mapeamento, ativas) ==
    [i \in 1..Len(d) |->
        IF \E id \in DOMAIN mapeamento :
              ~NaLista(id, ativas) /\ (i - 1) \in Elementos(d, mapeamento[id])
        THEN ParagrafoLimpo(d[i]) ELSE d[i]]

\* re.match(r'^{{[\s]*[#/].*}}$', texto)
ComecaComSinal(resto) ==
    resto # <<>> /\ resto[1] \in {"#", "/"} /\ EndsWith(Tail(resto), <<"}", "}">>)
SoMarcador(texto) ==
    StartsWith(texto, <<"{", "{">>) /\ ComecaComSinal(SemEspacoInicial(SliceFrom(texto, 2)))

\* lines 272-292: whether the cleanup removes paragraph p
RemovidoNaLimpeza(p) ==
    \/ SoMarcador(Strip(TextoDe(p)))
    \/ /\ Strip(TextoDe(p)) = <<>> /\ p.runs # <<>>
       /\ \A k \in 1..Len(p.runs) : Strip(p.runs[k]) = <<>>

\* DocumentoProcessor._limpar_documento_apos_processamento
LimparDocumentoAposProcessamento(d) ==
    LET fica(p) == ~RemovidoNaLimpeza(p)
    IN  SelectSeq(d, fica)

\* DocumentoProcessor._validar_documento: the exception it raises, "" if none
ValidarDocumentoErro(cj, estrito, ctx) ==
    IF cj.obrigatorios # {} /\ estrito THEN "DadosError"
    ELSE IF \E c \in cj.ausentes \cup cj.substituidos : ObterCampoPorNome(c, ctx).err # ""
    THEN "AttributeError"
    ELSE ""

\* lines 167-175: the statistics dict (tempo_processamento is wall-clock time)
Estatisticas(cj, encontradas, ativas) ==
    [campos_encontrados |-> Cardinality(cj.encontrados),
     campos_substituidos |-> Cardinality(cj.substituidos),
     campos_ausentes |-> Cardinality(cj.ausentes),
     campos_obrigatorios_ausentes |-> Cardinality(cj.obrigatorios),
     secoes_encontradas |-> Cardinality(encontradas),
     secoes_ativas |-> Len(ativas)]

\* DocumentoProcessor._registrar_estatisticas (lines 1004-1014): the whole part
\* of the percentage it puts under 'porcentagem_completude'; no line calls it
PorcentagemCompletude(cj) ==
    IF Cardinality(cj.encontrados) > 0
    THEN (Cardinality(cj.substituidos) * 100) \div Cardinality(cj.encontrados)
    ELSE 0

\* main.py line 289: estatisticas.get('porcentagem_completude', 0)
CompletudeExibida(est) ==
    IF "porcentagem_completude" \in DOMAIN est THEN est.porcentagem_completude ELSE 0

----------------------------------------------------------------------------
(* Inputs                                                                   *)

MaxParagrafos == 3    \* paragraphs of a template
MaxRuns == 3          \* runs a paragraph's text is split into
MaxFilhos == 2        \* children of a composite condition
MaxSecoes == 2        \* section definitions of a rule file

SemFormato == Formato(FALSE, FALSE, FALSE)
Negrito == Formato(TRUE, FALSE, FALSE)

\* the metadata table: nome is required, obs is optional, preco is written
\* out in words, other names are unknown
CamposDoModelo ==
    (<<"n", "o", "m", "e">> :> CampoInfo({"nome_campo", "obrigatorio_quando_ativo",
                             "tipo_dado_programacao"}, TRUE, <<>>, <<"t", "e", "x", "t", "o">>))
    @@ (<<"o", "b", "s">> :> CampoInfo({"nome_campo", "obrigatorio_quando_ativo"},
                              FALSE, <<>>, <<>>))
    @@ (<<"p", "r", "e", "c", "o">> :> CampoInfo({"nome_campo", "tipo_dado_programacao"},
                                FALSE, <<>>, <<"e", "x", "t", "e", "n", "s", "o">>))

\* a record built from optional entries
Entrada(tem, chave, valor) == IF tem THEN chave :> valor ELSE <<>>

\* the records of the assembly runs
RegistrosMontagem ==
    {Entrada(n, <<"n", "o", "m", "e">>, PyStr(<<"A", "n", "a">>)) @@ Entrada(o, <<"o", "b", "s">>, PyStr(<<"x">>))
        @@ Entrada(h # <<>>, <<"c", "a", "l", "c", "u", "l", "a", "r", "_", "h", "o", "r", "a", "s", "_", "e", "x", "t", "r", "a", "s">>, PyStr(h)) :
            n \in BOOLEAN, o \in BOOLEAN, h \in {<<>>, <<"S", "i", "m">>, <<"N", "a", "o">>}}

FolhaHorasExtras == Folha(<<"c", "a", "l", "c", "u", "l", "a", "r", "_", "h", "o", "r", "a", "s", "_", "e", "x", "t", "r", "a", "s">>, "==", PyStr(<<"S", "i", "m">>))
FolhaInsalubridade == Folha(<<"c", "a", "l", "c", "u", "l", "a", "r", "_", "i", "n", "s", "a", "l", "u", "b", "r", "i", "d", "a", "d", "e">>, "==", PyStr(<<"S", "i", "m">>))

\* the rule files of the assembly runs: none, or FATOS (no rule) and two
\* sections behind a leaf rule
DefinicoesMontagem ==
    {<<>>,
     <<Definicao(<<"F", "A", "T", "O", "S">>, FALSE, CondicaoVazia),
       Definicao(<<"H", "O", "R", "A", "S", "_", "E", "X", "T", "R", "A", "S">>, TRUE, FolhaHorasExtras),
       Definicao(<<"I", "N", "S", "A", "L", "U", "B", "R", "I", "D", "A", "D", "E">>, TRUE, FolhaInsalubridade)>>}

\* the paragraphs templates are cut from
ModeloBase ==
    << Paragrafo(<<<<"{", "{", "n", "o", "m", "e", "}", "}", " ", "{", "{", "o", "b", "s", "}", "}">>>>, SemFormato),
       Paragrafo(<<<<"{", "{", "#", "H", "O", "R", "A", "S", "_", "E", "X", "T", "R", "A", "S", "}", "}">>, <<"E", "x", "t", "r", "a", "s">>>>, SemFormato),
       Paragrafo(<<<<"d", "e", "v", "i", "d", "a", "s", " ", "{", "{", "/", "H", "O", "R", "A", "S", "_", "E", "X", "T", "R", "A", "S", "}", "}">>, <<"{", "{", "#", "I", "N", "S", "A", "L", "U", "B", "R", "I", "D", "A", "D", "E", "}", "}", " ", "I", "n", "s", "a", "l", "u", "b", "r", "e">>>>,
                 SemFormato),
       Paragrafo(<<<<"{", "{", "/", "I", "N", "S", "A", "L", "U", "B", "R", "I", "D", "A", "D", "E", "}", "}">>>>, SemFormato),
       Paragrafo(<<<<"H", "O", "R", "A", "S", " ", "E", "X", "T", "R", "A", "S">>>>, Negrito),
       Paragrafo(<<<<"f", "i">>, <<"m">>>>, SemFormato) >>

\* the paragraphs of base at the positions of S, in order
Recorte(base, S) == [j \in 1..Cardinality(S) |-> base[Ordenar(S)[j]]]

TemplatesMontagem ==
    {Recorte(ModeloBase, S) :
        S \in {X \in SUBSET (1..Len(ModeloBase)) :
                  Cardinality(X) >= 1 /\ Cardinality(X) <= MaxParagrafos}}

\* text split into runs at the offsets of cortes
Dividir(texto, cortes) ==
    LET c == <<0>> \o Ordenar(cortes) \o <<Len(texto)>>
    IN  [j \in 1..(Len(c) - 1) |-> Slice(texto, c[j], c[j + 1])]

TextosFragmentos == {<<"S", "r", ".", " ", "{", "{", "n", "o", "m", "e", "}", "}", " ", "f", "i", "m">>, <<"{", "{", "n", "o", "m", "e", "}", "}", "{", "{", "o", "b", "s", "}", "}", ".">>}

\* one paragraph, its text split into 1..MaxRuns non-empty runs in every way
Divisoes(t) ==
    {Dividir(t, S) : S \in {X \in SUBSET (1..(Len(t) - 1)) : Cardinality(X) < MaxRuns}}
TemplatesFragmentos ==
    UNION {{<<Paragrafo(runs, SemFormato)>> : runs \in Divisoes(t)} :
              t \in TextosFragmentos}

RegistrosFragmentos ==
    {Entrada(n, <<"n", "o", "m", "e">>, PyStr(<<"A", "n", "a">>)) @@ Entrada(o, <<"o", "b", "s">>, PyStr(<<"x">>)) :
        n \in BOOLEAN, o \in BOOLEAN}

\* the leaves rule trees are built from: an equality, an ordering, a test
\* without valor, and an operator outside MotorRegras.operadores
FolhaIdade == Folha(<<"i", "d", "a", "d", "e">>, ">", PyInt(18))
FolhaObsVazia == FolhaSemValor(<<"o", "b", "s">>, "is_empty")
FolhaOperadorInvalido == Folha(<<"i", "d", "a", "d", "e">>, "~=", PyInt(18))
FolhasRegras == {FolhaHorasExtras, FolhaIdade, FolhaObsVazia, FolhaOperadorInvalido}

ListasDe(S, n) == UNION {[1..k -> S] : k \in 0..n}

ArvoresRegras ==
    FolhasRegras \cup {Composta(tipo, filhos) :
                          tipo \in OperadoresLogicos,
                          filhos \in ListasDe(FolhasRegras, MaxFilhos)}

IdDaSecao(k) == <<"S">> \o StrNat(k)

\* what follows the first definition of a rule file: no rule, or one of the
\* two leaves that read the record
OutrasDefinicoes ==
    {[tem_regra |-> FALSE, regra |-> CondicaoVazia]}
    \cup {[tem_regra |-> TRUE, regra |-> f] : f \in {FolhaHorasExtras, FolhaIdade}}

\* rule files of 1..MaxSecoes sections with distinct ids (the keys of a dict)
DefinicoesRegras ==
    UNION {{[k \in 1..n |-> IF k = 1 THEN Definicao(IdDaSecao(1), TRUE, a)
                            ELSE Definicao(IdDaSecao(k), o[k].tem_regra, o[k].regra)] :
                a \in ArvoresRegras, o \in [2..n -> OutrasDefinicoes]} :
           n \in 1..MaxSecoes}

RegistrosRegras ==
    {Entrada(h # <<>>, <<"c", "a", "l", "c", "u", "l", "a", "r", "_", "h", "o", "r", "a", "s", "_", "e", "x", "t", "r", "a", "s">>, PyStr(h))
        @@ Entrada(i, <<"i", "d", "a", "d", "e">>, PyInt(20)) :
            h \in {<<>>, <<"S", "i", "m">>, <<"N", "a", "o">>}, i \in BOOLEAN}

TemplatesRegras == {<<Paragrafo(<<<<"f", "i", "m">>>>, SemFormato)>>}

Provedores == {"MotorRegras", "AdaptadorModeloRelacional"}

\* a document still to assemble: its record and the template of the call
Trabalho(registro, modelo) == [dados |-> registro, template |-> modelo]
RegistroCompleto ==
    Entrada(TRUE, <<"n", "o", "m", "e">>, PyStr(<<"A", "n", "a">>)) @@ Entrada(TRUE, <<"o", "b", "s">>, PyStr(<<"x">>))

\* the templates of the runs of several documents: fields only, a bold title
\* before plain text, plain text only
ModeloDeCampos == Recorte(ModeloBase, {1, 6})
ModeloComTitulo == Recorte(ModeloBase, {5, 6})
ModeloSimples == Recorte(ModeloBase, {6})
TemplatesLote == {ModeloDeCampos, ModeloComTitulo, ModeloSimples}
RegistroComHoras == Entrada(TRUE, <<"c", "a", "l", "c", "u", "l", "a", "r", "_", "h", "o", "r", "a", "s", "_", "e", "x", "t", "r", "a", "s">>, PyStr(<<"S", "i", "m">>))
RegistrosSeguintes == {<<>>, RegistroCompleto, RegistroComHoras}

\* records of one numeric field: valor is monetary by its name, preco is
\* written out by its metadata; float values are in hundredths
ValoresMonetarios ==
    {PyFloat(5), PyInt(7), PyFloat(99999), PyInt(1000), PyFloat(123450),
     PyFloat(123456789)}
ValoresPorExtenso ==
    {PyInt(0), PyInt(1), PyFloat(2115), PyInt(100), PyFloat(99901), PyInt(1000),
     PyFloat(123450)}
RegistrosFormatos ==
    {Entrada(TRUE, <<"v", "a", "l", "o", "r">>, v) : v \in ValoresMonetarios}
        \cup {Entrada(TRUE, <<"p", "r", "e", "c", "o">>, v) : v \in ValoresPorExtenso}
\* one placeholder in one paragraph, whole or split over two runs, alone or
\* inside a sentence
TemplatesFormatos ==
    {<<Paragrafo(runs, SemFormato)>> :
        runs \in {<<<<"{", "{", "v", "a", "l", "o", "r", "}", "}">>>>, <<<<"{", "{", "v", "a">>, <<"l", "o", "r", "}", "}">>>>, <<<<"T", "o", "t", "a", "l", ":", " ", "{", "{", "v", "a", "l", "o", "r", "}", "}", ".">>>>,
                  <<<<"{", "{", "p", "r", "e", "c", "o", "}", "}">>>>, <<<<"{", "{", "p", "r", "e">>, <<"c", "o", "}", "}">>>>}}

----------------------------------------------------------------------------
(* One record through main and DocumentoProcessor.processar_documento      *)

SemConjuntos == Conjuntos({}, {}, {}, {})
ConjuntosAtuais ==
    Conjuntos(campos_encontrados, campos_substituidos, campos_ausentes,
              campos_obrigatorios_ausentes)
ContextoAtual == Contexto(dados, provedor, campos)

\* the state after main built MotorRegras and loaded the rules and the record
\* and the documents that follow the first one
InitDoProcesso(registros, definicoes, templates, provedores, estritos, filas,
               instancias, locales) ==
    /\ locale_pt_br \in locales
    /\ pc = "inicio"
    /\ pendentes \in filas
    /\ mesma_instancia \in instancias
    /\ dados \in registros
    /\ definicoes_secoes \in definicoes
    /\ provedor \in provedores
    /\ campos = CamposDoModelo
    /\ modo_estrito \in estritos
    /\ template \in templates
    /\ doc = <<>>
    /\ secoes_motor = <<>>
    /\ erros_motor = {}
    /\ secoes_ativas = <<>>
    /\ campos_encontrados = {}
    /\ campos_substituidos = {}
    /\ campos_ausentes = {}
    /\ campos_obrigatorios_ausentes = {}
    /\ secoes_encontradas = {}
    /\ secoes_identificadas_pelo_conteudo = <<>>
    /\ estatisticas_processamento = <<>>
    /\ doc_substituido = <<>>
    /\ secoes_no_documento = <<>>
    /\ doc_podado = <<>>
    /\ limpeza_executada = FALSE
    /\ salvo = FALSE
    /\ erro = ""
    /\ completude_exibida = -1
\* a host without the pt_BR locale
InitLote(registros, definicoes, templates, provedores, estritos, filas, instancias) ==
    InitDoProcesso(registros, definicoes, templates, provedores, estritos, filas,
                   instancias, {FALSE})
\* one document: the JSON source, or a CSV file of one record
InitCom(registros, definicoes, templates, provedores, estritos) ==
    InitLote(registros, definicoes, templates, provedores, estritos, {<<>>}, {FALSE})

\* a CSV file of two records: main builds a processor for each record and
\* passes the same template
InitLoteDeMain(registros, definicoes, templates, provedores, estritos, seguintes) ==
    \E t \in templates :
        InitLote(registros, definicoes, {t}, provedores, estritos,
                 {<<Trabalho(r, t)>> : r \in seguintes}, {FALSE})
\* a caller that keeps one processor for two documents, each with its template
InitLoteDeUmaInstancia(registros, definicoes, templates, provedores, estritos, seguintes) ==
    InitLote(registros, definicoes, templates, provedores, estritos,
             {<<Trabalho(r, t)>> : r \in seguintes, t \in templates}, {TRUE})

Init ==
    \/ InitCom(RegistrosMontagem, DefinicoesMontagem, TemplatesMontagem,
               Provedores, BOOLEAN)
    \/ InitLoteDeMain(RegistrosMontagem, {<<>>}, TemplatesLote, Provedores, BOOLEAN,
                      RegistrosSeguintes)
    \/ InitLoteDeUmaInstancia(RegistrosMontagem, {<<>>}, TemplatesLote, Provedores,
                              {FALSE}, RegistrosSeguintes)
InitFragmentos ==
    \/ InitCom(RegistrosFragmentos, {<<>>}, TemplatesFragmentos, Provedores, {FALSE})
    \/ InitLoteDeMain(RegistrosFragmentos, {<<>>}, {ModeloDeCampos}, Provedores,
                      {FALSE}, {RegistroCompleto})
InitRegras ==
    \/ InitCom(RegistrosRegras, DefinicoesRegras, TemplatesRegras,
               {"MotorRegras"}, {FALSE})
    \/ InitLoteDeMain(RegistrosRegras,
                      {<<Definicao(IdDaSecao(1), TRUE, FolhaHorasExtras)>>},
                      TemplatesRegras, {"MotorRegras"}, {FALSE}, {RegistroCompleto})

\* main.py line 228: secoes_ativas = motor_regras.avaliar_secoes_ativas(dados)
AvaliarSecoesAtivas ==
    /\ pc = "inicio"
    /\ LET r == AvaliarSecoesAtivasDe(definicoes_secoes, dados)
       IN  /\ secoes_motor' = r.ativas
           /\ erros_motor' = r.erros
    /\ pc' = "processar"
    /\ UNCHANGED <<pendentes, mesma_instancia, locale_pt_br,
                   dados, definicoes_secoes, provedor, campos, modo_estrito, template,
                   doc, secoes_ativas, campos_encontrados, campos_substituidos,
                   campos_ausentes, campos_obrigatorios_ausentes, secoes_encontradas,
                   secoes_identificadas_pelo_conteudo, estatisticas_processamento,
                   doc_substituido, secoes_no_documento, doc_podado,
                   limpeza_executada, salvo, erro, completude_exibida>>

\* processar_documento lines 111-143: reset, load the template, take the
\* active sections given or determine them from the record
IniciarProcessamento ==
    /\ pc = "processar"
    /\ campos_encontrados' = {}
    /\ campos_substituidos' = {}
    /\ campos_ausentes' = {}
    /\ campos_obrigatorios_ausentes' = {}
    /\ estatisticas_processamento' = <<>>
    /\ secoes_encontradas' = {}
    /\ doc' = template
    /\ secoes_ativas' = IF secoes_motor = <<>> THEN DeterminarSecoesAtivas(dados)
                        ELSE secoes_motor
    /\ pc' = "substituir"
    /\ UNCHANGED <<pendentes, mesma_instancia, locale_pt_br,
                   dados, definicoes_secoes, provedor, campos, modo_estrito, template,
                   secoes_motor, erros_motor, secoes_identificadas_pelo_conteudo,
                   doc_substituido, secoes_no_documento, doc_podado,
                   limpeza_executada, salvo, erro, completude_exibida>>

\* processar_documento line 146
CamposSubstituidos(r) ==
    /\ doc' = r.doc
    /\ doc_substituido' = r.doc
    /\ campos_encontrados' = r.cj.encontrados
    /\ campos_substituidos' = r.cj.substituidos
    /\ campos_ausentes' = r.cj.ausentes
    /\ campos_obrigatorios_ausentes' = r.cj.obrigatorios
    /\ erro' = r.erro
    /\ pc' = IF r.erro # "" THEN "erro" ELSE "secoes"
SubstituirTodosCampos ==
    /\ pc = "substituir"
    /\ CamposSubstituidos(SubstituirTodosCamposDe(doc, ConjuntosAtuais, ContextoAtual))
    /\ UNCHANGED <<pendentes, mesma_instancia, locale_pt_br,
                   dados, definicoes_secoes, provedor, campos, modo_estrito, template,
                   secoes_motor, erros_motor, secoes_ativas, secoes_encontradas,
                   secoes_identificadas_pelo_conteudo, estatisticas_processamento,
                   secoes_no_documento, doc_podado, limpeza_executada, salvo,
                   completude_exibida>>

\* lines 226-253: the sections were mapped; podado is the document after the
\* pruning loop
PodarELimpar(m, podado) ==
    /\ secoes_encontradas' = DOMAIN m.mapeamento
    /\ doc_podado' = podado
    /\ doc' = LimparDocumentoAposProcessamento(podado)
    /\ limpeza_executada' = TRUE
    /\ pc' = "validar"
\* lines 217-222: m is what _mapear_secoes_no_documento returned (or raised)
SecoesMapeadas(ativas, m) ==
    /\ secoes_identificadas_pelo_conteudo' = m.identificadas
    /\ secoes_no_documento' = m.mapeamento
    /\ erro' = m.erro
    /\ IF m.erro # "" \/ DOMAIN m.mapeamento = {}
       THEN /\ UNCHANGED <<doc, secoes_encontradas, limpeza_executada>>
            /\ doc_podado' = doc
            /\ pc' = IF m.erro # "" THEN "erro" ELSE "validar"
       ELSE PodarELimpar(m, Podar(doc, m.mapeamento, ativas))
\* lines 206-212: without active sections the document is returned as it is
ComSecoesAtivas(ativas) ==
    /\ secoes_ativas' = ativas
    /\ IF ativas = <<>>
       THEN /\ UNCHANGED <<doc, secoes_encontradas, secoes_no_documento,
                           secoes_identificadas_pelo_conteudo, limpeza_executada, erro>>
            /\ doc_podado' = doc
            /\ pc' = "validar"
       ELSE SecoesMapeadas(ativas,
                MapearSecoesNoDocumento(doc, secoes_identificadas_pelo_conteudo))
\* processar_documento line 149: _processar_secoes_condicionais
ProcessarSecoesCondicionais ==
    /\ pc = "secoes"
    /\ ComSecoesAtivas(IF secoes_ativas = <<>> THEN DeterminarSecoesAtivas(dados)
                       ELSE secoes_ativas)
    /\ UNCHANGED <<pendentes, mesma_instancia, locale_pt_br,
                   dados, definicoes_secoes, provedor, campos, modo_estrito, template,
                   secoes_motor, erros_motor, campos_encontrados, campos_substituidos,
                   campos_ausentes, campos_obrigatorios_ausentes,
                   estatisticas_processamento, doc_substituido, salvo,
                   completude_exibida>>

\* processar_documento line 152: _validar_documento
ValidarDocumento ==
    /\ pc = "validar"
    /\ erro' = ValidarDocumentoErro(ConjuntosAtuais, modo_estrito, ContextoAtual)
    /\ pc' = IF erro' # "" THEN "erro" ELSE "salvar"
    /\ UNCHANGED <<pendentes, mesma_instancia, locale_pt_br,
                   dados, definicoes_secoes, provedor, campos, modo_estrito, template,
                   doc, secoes_motor, erros_motor, secoes_ativas, campos_encontrados,
                   campos_substituidos, campos_ausentes, campos_obrigatorios_ausentes,
                   secoes_encontradas, secoes_identificadas_pelo_conteudo,
                   estatisticas_processamento, doc_substituido, secoes_no_documento,
                   doc_podado, limpeza_executada, salvo, completude_exibida>>

\* processar_documento lines 155-179: save, then collect the statistics
SalvarDocumento ==
    /\ pc = "salvar"
    /\ salvo' = TRUE
    /\ estatisticas_processamento' =
           Estatisticas(ConjuntosAtuais, secoes_encontradas, secoes_ativas)
    /\ pc' = "resumo"
    /\ UNCHANGED <<pendentes, mesma_instancia, locale_pt_br,
                   dados, definicoes_secoes, provedor, campos, modo_estrito, template,
                   doc, secoes_motor, erros_motor, secoes_ativas, campos_encontrados,
                   campos_substituidos, campos_ausentes, campos_obrigatorios_ausentes,
                   secoes_encontradas, secoes_identificadas_pelo_conteudo,
                   doc_substituido, secoes_no_documento, doc_podado,
                   limpeza_executada, erro, completude_exibida>>

\* DocumentoProcessor.__init__ (lines 47-54) for the next document, or the
\* fields as the last document left them when the caller keeps the instance
InstanciaSeguinte ==
    IF mesma_instancia
    THEN UNCHANGED <<secoes_ativas, campos_encontrados, campos_substituidos,
                     campos_ausentes, campos_obrigatorios_ausentes, secoes_encontradas,
                     secoes_identificadas_pelo_conteudo, estatisticas_processamento>>
    ELSE /\ secoes_ativas' = <<>>
         /\ campos_encontrados' = {}
         /\ campos_substituidos' = {}
         /\ campos_ausentes' = {}
         /\ campos_obrigatorios_ausentes' = {}
         /\ secoes_encontradas' = {}
         /\ secoes_identificadas_pelo_conteudo' = <<>>
         /\ estatisticas_processamento' = <<>>

\* main.py lines 211-246: the document was appended to documentos_gerados and
\* the loop takes the next record
ProximoRegistro ==
    /\ pc = "resumo"
    /\ pendentes # <<>>
    /\ dados' = Head(pendentes).dados
    /\ template' = Head(pendentes).template
    /\ pendentes' = Tail(pendentes)
    /\ secoes_motor' = <<>>
    /\ erros_motor' = {}
    /\ InstanciaSeguinte
    /\ doc' = <<>>
    /\ doc_substituido' = <<>>
    /\ secoes_no_documento' = <<>>
    /\ doc_podado' = <<>>
    /\ limpeza_executada' = FALSE
    /\ salvo' = FALSE
    /\ pc' = "inicio"
    /\ UNCHANGED <<mesma_instancia, locale_pt_br, definicoes_secoes, provedor, campos, modo_estrito,
                   erro, completude_exibida>>

\* main.py lines 281-291: after the last record, the summary of the generated
\* document
ExibirResumo ==
    /\ pc = "resumo"
    /\ pendentes = <<>>
    /\ completude_exibida' = CompletudeExibida(estatisticas_processamento)
    /\ pc' = "fim"
    /\ UNCHANGED <<pendentes, mesma_instancia, locale_pt_br,
                   dados, definicoes_secoes, provedor, campos, modo_estrito, template,
                   doc, secoes_motor, erros_motor, secoes_ativas, campos_encontrados,
                   campos_substituidos, campos_ausentes, campos_obrigatorios_ausentes,
                   secoes_encontradas, secoes_identificadas_pelo_conteudo,
                   estatisticas_processamento, doc_substituido, secoes_no_documento,
                   doc_podado, limpeza_executada, salvo, erro>>

Next ==
    \/ AvaliarSecoesAtivas
    \/ IniciarProcessamento
    \/ SubstituirTodosCampos
    \/ ProcessarSecoesCondicionais
    \/ ValidarDocumento
    \/ SalvarDocumento
    \/ ProximoRegistro
    \/ ExibirResumo

Spec == Init /\ [][Next]_vars
SpecFragmentos == InitFragmentos /\ [][Next]_vars
SpecRegras == InitRegras /\ [][Next]_vars

----------------------------------------------------------------------------
(* Properties of pruning                                                    *)

AposSecoes == pc \in {"validar", "salvar", "resumo", "fim"}

\* every run of every paragraph of d inside the boundary lim has empty text
SecaoApagada(d, lim) ==
    \A i \in Elementos(d, lim) : \A k \in 1..Len(d[i + 1].runs) : d[i + 1].runs[k] = <<>>
InativasApagadas(m, ativas, d) ==
    \A id \in DOMAIN m : ~NaLista(id, ativas) => SecaoApagada(d, m[id])

\* C1: after section processing, for every section boundary mapped in the
\* document whose id is not in the active set (the empty active set included),
\* every paragraph inside the boundary has empty text in every run
C1_InativasApagadas ==
    AposSecoes =>
        InativasApagadas(MapearSecoesNoDocumento(doc_substituido, <<>>).mapeamento,
                         secoes_ativas, doc_podado)

\* two boundaries neither of which lies inside the other
Irmas(a, b) ==
    /\ ~(a.inicio >= b.inicio /\ a.fim <= b.fim)
    /\ ~(b.inicio >= a.inicio /\ b.fim <= a.fim)
SecaoIntacta(antes, depois, lim) ==
    \A i \in Elementos(antes, lim) : depois[i + 1] = antes[i + 1]
IrmasIntactas(m, ativas, antes, depois) ==
    \A a \in DOMAIN m, b \in DOMAIN m :
        (NaLista(a, ativas) /\ ~NaLista(b, ativas) /\ Irmas(m[a], m[b]))
            => SecaoIntacta(antes, depois, m[a])

\* C2: pruning an inactive section leaves the text and the run split of every
\* paragraph of another (sibling) section as they were before pruning
C2_IrmasIntactas ==
    (AposSecoes /\ secoes_ativas # <<>>) =>
        IrmasIntactas(MapearSecoesNoDocumento(doc_substituido, <<>>).mapeamento,
                      secoes_ativas, doc_substituido, doc_podado)

----------------------------------------------------------------------------
(* Properties of the substitution                                           *)

Substituido == pc = "secoes"

\* the paragraph holding the same text in one run
EmUmaRun(p) == Paragrafo(<<TextoDe(p)>>, p.formato)

\* C3: for a paragraph text with a placeholder split into k >= 1 runs in any
\* way, the text matched is the same and the text after substitution (the
\* concatenation of the runs) is the same for every k
C3_MesmoTextoParaTodaDivisao ==
    Substituido =>
        /\ TextoDe(template[1]) = TextoDe(EmUmaRun(template[1]))
        /\ TextoDe(doc_substituido[1])
               = TextoDe(SubstituirParagrafo(EmUmaRun(template[1]), SemConjuntos,
                                             ContextoAtual).p)

\* C4: substitution changes only the placeholder tokens: the text of the
\* paragraph afterwards is its text before with every data placeholder
\* replaced by its replacement string and every literal character kept (also
\* after a placeholder in the same run and with several placeholders); for a
\* paragraph of one run it is the direct string replace on the run's text
C4_SoOsPlaceholdersMudam ==
    Substituido =>
        TextoDe(doc_substituido[1])
            = SubstituirCampos(TextoDe(template[1]), SemConjuntos, ContextoAtual).texto

\* no paragraph of d holds a {{...}} token
SemTokens(d) == \A i \in 1..Len(d) : Tokens(TextoDe(d[i])) = <<>>
PassagemNula(r, d) ==
    r.doc = d /\ r.cj = SemConjuntos /\ r.escritas = 0 /\ r.erro = ""

\* C5: a second substitution pass over a document without any {{...}} token
\* discovers no placeholder and assigns to no run and no paragraph
C5_SegundaPassagemNula ==
    (Substituido /\ SemTokens(doc)) =>
        PassagemNula(SubstituirTodosCamposDe(doc, SemConjuntos, ContextoAtual), doc)
\* a first pass that substituted a placeholder and left no token, over a
\* document with a paragraph of several runs
C5_Testemunha ==
    /\ Substituido /\ SemTokens(doc) /\ campos_substituidos # {}
    /\ \E i \in 1..Len(doc) : Len(doc[i].runs) > 1

\* the names inside the {{...}} tokens of text t
NomesDe(t) == {NomeDoToken(Tokens(t)[j]) : j \in 1..Len(Tokens(t))}
\* the placeholders of text t whose field the record lacks
NomesAusentes(t, registro) == NomesDe(t) \ DOMAIN registro
CampoAusenteTratado(nome, texto, meta, cj) ==
    IF EhMarcadorDeSecao(nome) THEN TRUE
    ELSE IF nome \in DOMAIN meta /\ meta[nome].obrigatorio_quando_ativo
    THEN /\ Contem(texto, MarcadorObrigatorio(nome))
         /\ nome \in cj.ausentes /\ nome \in cj.obrigatorios
    ELSE /\ nome \notin NomesDe(texto)
         /\ nome \in cj.ausentes /\ nome \notin cj.obrigatorios
AusentesTratados(nomes, texto, meta, cj) ==
    \A nome \in nomes : CampoAusenteTratado(nome, texto, meta, cj)

\* C6: a placeholder whose field the record lacks is replaced by a marker
\* string holding the field name and counted as missing and as missing and
\* required when the metadata declares it required, and is replaced by the
\* empty string and counted as missing only when it is optional
C6_CamposAusentes ==
    Substituido =>
        \A i \in 1..Len(template) :
            AusentesTratados(NomesAusentes(TextoDe(template[i]), dados),
                             TextoDe(doc_substituido[i]), campos, ConjuntosAtuais)

\* C7: the statistics of the processor after an assembly run hold a
\* completeness percentage of substituted / discovered x 100
C7_PorcentagemNasEstatisticas ==
    (pc \in {"resumo", "fim"}) =>
        /\ "porcentagem_completude" \in DOMAIN estatisticas_processamento
        /\ estatisticas_processamento.porcentagem_completude
               = PorcentagemCompletude(ConjuntosAtuais)

----------------------------------------------------------------------------
(* Properties of the activation engine                                      *)

Avaliado == pc = "processar"

\* the rule of d is the leaf  campo == valor
EhFolhaDeIgualdade(d) ==
    /\ d.tem_regra
    /\ d.regra.chaves = {"campo", "operador", "valor"}
    /\ d.regra.operador = "=="
ValorNoRegistroEh(campo, valor, registro) ==
    campo \in DOMAIN registro /\ registro[campo] = valor

\* C8: a section whose condition is the leaf f == v is in the active set when
\* the record's value of f is v and is left out when it is another value
C8_FolhaDeIgualdade ==
    Avaliado =>
        \A k \in 1..Len(definicoes_secoes) :
            EhFolhaDeIgualdade(definicoes_secoes[k]) =>
                (NaLista(definicoes_secoes[k].id, secoes_motor)
                    <=> ValorNoRegistroEh(definicoes_secoes[k].regra.campo,
                                          definicoes_secoes[k].regra.valor, dados))
\* two sections behind an equality leaf, both activated by the record
C8_Testemunha ==
    /\ Avaliado /\ Len(definicoes_secoes) = 2
    /\ \A k \in 1..2 : /\ EhFolhaDeIgualdade(definicoes_secoes[k])
                       /\ NaLista(definicoes_secoes[k].id, secoes_motor)

\* the evaluation of the rule of d raises
Falha(d, registro) == d.tem_regra /\ AvaliarCondicao(d.regra, registro).err # ""
SemAsQueFalham(defs, registro) ==
    LET fica(d) == ~Falha(d, registro)
    IN  SelectSeq(defs, fica)

\* C9: a section whose condition evaluation fails is left out of the active
\* set, no error leaves the engine, and every other section gets the result it
\* gets without the failing section
C9_FalhaNaoAborta ==
    Avaliado =>
        /\ erro = ""
        /\ \A k \in 1..Len(definicoes_secoes) :
               Falha(definicoes_secoes[k], dados)
                   => ~NaLista(definicoes_secoes[k].id, secoes_motor)
        /\ secoes_motor
               = AvaliarSecoesAtivasDe(SemAsQueFalham(definicoes_secoes, dados), dados).ativas
\* the first section failed and the one after it is active
C9_Testemunha ==
    /\ Avaliado /\ Len(definicoes_secoes) = 2
    /\ Falha(definicoes_secoes[1], dados)
    /\ secoes_motor = <<definicoes_secoes[2].id>>

\* a tree of leaves with a whitelisted operator (and the value it needs) and
\* of and/or/not composites
RECURSIVE BemFormada(_)
BemFormada(c) ==
    IF "tipo" \in c.chaves /\ c.tipo \in OperadoresLogicos
    THEN \A i \in 1..Len(SubCondicoes(c)) : BemFormada(SubCondicoes(c)[i])
    ELSE /\ {"campo", "operador"} \subseteq c.chaves
         /\ c.campo # <<>>
         /\ c.operador \in Operadores
         /\ c.operador \in {"is_empty", "is_not_empty"} \/ "valor" \in c.chaves

\* C10: the evaluation of a tree of whitelisted leaf operators and and/or/not
\* composites returns a boolean for every record, without raising
C10_BemFormadaNaoLevanta ==
    Avaliado =>
        \A k \in 1..Len(definicoes_secoes) :
            (definicoes_secoes[k].tem_regra /\ BemFormada(definicoes_secoes[k].regra))
                => /\ definicoes_secoes[k].id \notin erros_motor
                   /\ AvaliarCondicao(definicoes_secoes[k].regra, dados).err = ""


----------------------------------------------------------------------------
(* Composite conditions over their child lists                             *)

\* the rule of d is a composite of the logical operator tipo
EhComposta(d, tipo) ==
    d.tem_regra /\ "tipo" \in d.regra.chaves /\ d.regra.tipo = tipo
Ativa(d) == NaLista(d.id, secoes_motor)
Rejeitada(d) == d.id \in erros_motor /\ ~NaLista(d.id, secoes_motor)
CompostaComoNoContrato(d) ==
    /\ (EhComposta(d, "and") /\ SubCondicoes(d.regra) = <<>>) => Ativa(d)
    /\ (EhComposta(d, "or") /\ SubCondicoes(d.regra) = <<>>)
           => (~Ativa(d) /\ d.id \notin erros_motor)
    /\ (EhComposta(d, "not") /\ Len(SubCondicoes(d.regra)) # 1) => Rejeitada(d)

\* C11: a section behind an and with no children is active, a section behind
\* an or with no children is inactive, and a section behind a not with zero
\* children or with more than one child is rejected: it is not evaluated as a
\* valid not and is not in the active set
C11_CompostasVazias ==
    Avaliado =>
        \A k \in 1..Len(definicoes_secoes) : CompostaComoNoContrato(definicoes_secoes[k])

----------------------------------------------------------------------------
(* Leaves over a field the record lacks                                    *)

\* the rule of d is a leaf with one of MotorRegras.operadores
EhFolhaDaLista(d) ==
    /\ d.tem_regra
    /\ {"campo", "operador"} \subseteq d.regra.chaves
    /\ "tipo" \notin d.regra.chaves
    /\ d.regra.operador \in Operadores
\* the field of the leaf is a name (no literal) that is no key of the record
CampoForaDoRegistro(c, registro) ==
    /\ c.campo # <<>>
    /\ ~NoRegistro(c.campo, registro)
    /\ ObterValorCampo(c.campo, registro) = PyNone

\* C12: a section behind a leaf whose field the record lacks gets the result
\* false for every operator of the list: it is left out of the active set and
\* its evaluation raises nothing
C12_CampoAusenteDaFalso ==
    Avaliado =>
        \A k \in 1..Len(definicoes_secoes) :
            (EhFolhaDaLista(definicoes_secoes[k])
                /\ CampoForaDoRegistro(definicoes_secoes[k].regra, dados))
                    => /\ ~NaLista(definicoes_secoes[k].id, secoes_motor)
                       /\ definicoes_secoes[k].id \notin erros_motor

----------------------------------------------------------------------------
(* Coercion of the operands of a leaf                                      *)

Afirmativos == {<<"s", "i", "m">>, <<"y", "e", "s">>, <<"t", "r", "u", "e">>, <<"1">>, <<"s">>, <<"y">>, <<"t">>}
Negativos == {<<"n", "a", "o">>, <<"n", "o">>, <<"f", "a", "l", "s", "e">>, <<"0">>, <<"n">>, <<"f">>}

\* whether int(s) or float(s) of a stripped string returns (decimal literals
\* with an optional sign) or raises ValueError
EhNumeroLiteral(s) ==
    IF Contem(s, <<".">>) THEN EhFloatLiteral(s) ELSE IsDigit(SemSinal(s))
NumeroDe(s) ==
    IF Contem(s, <<".">>) THEN FloatDe(s)
    ELSE PyInt((IF StartsWith(s, <<"-">>) THEN 0 - 1 ELSE 1) * IntDe(SemSinal(s)))
ConverterNormalizado(s) ==
    IF Lower(s) \in Afirmativos THEN PyBool(TRUE)
    ELSE IF Lower(s) \in Negativos THEN PyBool(FALSE)
    ELSE IF EhNumeroLiteral(s) THEN NumeroDe(s)
    ELSE PyStr(s)
\* AvaliadorCondicoes._converter_valor
ConverterValor(valor) ==
    IF valor.t = "str" THEN ConverterNormalizado(Strip(valor.s)) ELSE valor

\* record values and expected values in several spellings
GrafiasNoRegistro == {<<"S", "i", "m">>, <<" ", "s", "i", "m", " ">>, <<"S">>, <<"1">>, <<"N", "a", "o">>, <<"x">>}
GrafiasNaRegra == {<<"S", "i", "m">>, <<"s", "i", "m">>, <<"S", " ">>, <<"x">>}
RegistrosCoercao ==
    {Entrada(TRUE, <<"c", "a", "l", "c", "u", "l", "a", "r", "_", "h", "o", "r", "a", "s", "_", "e", "x", "t", "r", "a", "s">>, PyStr(h)) : h \in GrafiasNoRegistro}
        \cup {<<>>}
\* an expected value that is a word of the deny-list of the textual evaluator
ValorProibido == <<"o", "s">>
FolhaDeGrafia(v) == Folha(<<"c", "a", "l", "c", "u", "l", "a", "r", "_", "h", "o", "r", "a", "s", "_", "e", "x", "t", "r", "a", "s">>, "==", PyStr(v))
DefinicoesCoercao ==
    {<<Definicao(IdDaSecao(1), TRUE, FolhaDeGrafia(v))>> :
        v \in GrafiasNaRegra \cup {ValorProibido}}
    \cup {<<Definicao(IdDaSecao(1), TRUE,
                      Composta("and", <<FolhaDeGrafia(<<"S", "i", "m">>), FolhaDeGrafia(ValorProibido)>>))>>}
    \cup {<<Definicao(IdDaSecao(1), TRUE,
                      Folha(<<"c", "a", "l", "c", "u", "l", "a", "r", "_", "h", "o", "r", "a", "s", "_", "e", "x", "t", "r", "a", "s">>, op, PyStr(<<"x">>)))>> :
              op \in {"!=", "<", "<=", ">", ">="}}
InitCoercao ==
    \/ InitCom(RegistrosCoercao, DefinicoesCoercao, TemplatesRegras, Provedores, BOOLEAN)
    \/ InitLoteDeMain(RegistrosCoercao, DefinicoesCoercao, TemplatesRegras,
                      {"MotorRegras"}, {FALSE}, {RegistroCompleto})
SpecCoercao == InitCoercao /\ [][Next]_vars

IgualdadeAposCoercao(c, registro) ==
    /\ NoRegistro(c.campo, registro)
    /\ PyEq(ConverterValor(registro[c.campo]), ConverterValor(c.valor))

\* C13: a section behind the leaf f == v is in the active set exactly when the
\* record's value of f and v are equal after the coercion of both (strings
\* are trimmed, and a spelling of the affirmative set becomes true)
C13_IgualdadeComCoercao ==
    Avaliado =>
        \A k \in 1..Len(definicoes_secoes) :
            EhFolhaDeIgualdade(definicoes_secoes[k]) =>
                (NaLista(definicoes_secoes[k].id, secoes_motor)
                    <=> IgualdadeAposCoercao(definicoes_secoes[k].regra, dados))

----------------------------------------------------------------------------
(* Templates of section markers                                            *)

\* the paragraphs marker templates are built from
ParagrafosDeMarcadores ==
    {Paragrafo(<<t>>, SemFormato) :
        t \in {<<"{", "{", "#", "H", "O", "R", "A", "S", "_", "E", "X", "T", "R", "A", "S", "}", "}">>, <<"{", "{", "/", "H", "O", "R", "A", "S", "_", "E", "X", "T", "R", "A", "S", "}", "}">>,
               <<"{", "{", "#", "I", "N", "S", "A", "L", "U", "B", "R", "I", "D", "A", "D", "E", "}", "}">>, <<"{", "{", "/", "I", "N", "S", "A", "L", "U", "B", "R", "I", "D", "A", "D", "E", "}", "}">>,
               <<"{", "{", "#", "H", "O", "R", "A", "S", "_", "E", "X", "T", "R", "A", "S", "}", "}", " ", "x", " ", "{", "{", "/", "H", "O", "R", "A", "S", "_", "E", "X", "T", "R", "A", "S", "}", "}">>, <<"t", "e", "x", "t", "o">>}}
TemplatesMarcadores ==
    UNION {[1..n -> ParagrafosDeMarcadores] : n \in 1..MaxParagrafos}
RegistrosMarcadores ==
    {Entrada(h, <<"c", "a", "l", "c", "u", "l", "a", "r", "_", "h", "o", "r", "a", "s", "_", "e", "x", "t", "r", "a", "s">>, PyStr(<<"S", "i", "m">>)) : h \in BOOLEAN}
InitMarcadores ==
    \/ InitCom(RegistrosMarcadores, {<<>>}, TemplatesMarcadores, {"MotorRegras"}, {FALSE})
    \/ InitLoteDeMain(RegistrosMarcadores, {<<>>}, {ModeloSimples}, {"MotorRegras"},
                      {FALSE}, RegistrosMarcadores)
SpecMarcadores == InitMarcadores /\ [][Next]_vars

\* paragraph i (0-based) of d holds a start marker / an end marker of id
TemInicio(d, id, i) == NaLista(id, MarcadoresDe(TextoDe(d[i + 1]), "#"))
TemFim(d, id, i) == NaLista(id, MarcadoresDe(TextoDe(d[i + 1]), "/"))
IdsComFim(d) ==
    UNION {{MarcadoresDe(TextoDe(d[i]), "/")[j] :
               j \in 1..Len(MarcadoresDe(TextoDe(d[i]), "/"))} : i \in 1..Len(d)}
IdsComInicio(d) ==
    UNION {{MarcadoresDe(TextoDe(d[i]), "#")[j] :
               j \in 1..Len(MarcadoresDe(TextoDe(d[i]), "#"))} : i \in 1..Len(d)}
ParagrafosComInicio(d, id) == {i \in 0..(Len(d) - 1) : TemInicio(d, id, i)}
ParagrafosComFim(d, id) == {i \in 0..(Len(d) - 1) : TemFim(d, id, i)}

\* the section step has run on the document, with a non-empty active set, so
\* the mapper was called (lines 206-217); the marker templates hold no field,
\* so in their runs an error can only come from the section step
MapeadorChamado == doc_podado # <<>> /\ secoes_ativas # <<>>

\* an end marker of id in paragraph i with no start marker of id before it
FimOrfao(d, id, i) ==
    TemFim(d, id, i) /\ \A j \in 0..i : ~TemInicio(d, id, j)
\* id has one start marker and one end marker, both after paragraph i
BemFormadaApos(d, id, i) ==
    /\ Cardinality(ParagrafosComInicio(d, id)) = 1
    /\ Cardinality(ParagrafosComFim(d, id)) = 1
    /\ \A j \in ParagrafosComInicio(d, id) : i < j
    /\ \A j \in ParagrafosComInicio(d, id) : \A k \in ParagrafosComFim(d, id) : j <= k
MapeadaPelosMarcadores(d, id, m) ==
    /\ id \in DOMAIN m
    /\ ParagrafosComInicio(d, id) = {m[id].inicio}
    /\ ParagrafosComFim(d, id) = {m[id].fim}
    /\ ~m[id].incompleta
OrfaoTratado(d, id, i, res) ==
    /\ id \in res.orfaos
    /\ (ParagrafosComInicio(d, id) = {}) => id \notin DOMAIN res.mapeamento
    /\ erro = "" /\ pc # "erro"
    /\ \A outra \in IdsComInicio(d) :
           BemFormadaApos(d, outra, i)
               => MapeadaPelosMarcadores(d, outra, secoes_no_documento)
OrfaosTratados(d, res) ==
    \A id \in IdsComFim(d) : \A i \in 0..(Len(d) - 1) :
        FimOrfao(d, id, i) => OrfaoTratado(d, id, i, res)

\* C14: when the mapper meets an end marker of an id that no earlier
\* paragraph opened, the id is flagged as an end marker without section, the
\* id gets no boundary from it, the mapper raises nothing, and a section with
\* one start and one end marker in later paragraphs is mapped to them
C14_FimOrfao ==
    MapeadorChamado => OrfaosTratados(doc_substituido, MapearPorMarcadores(doc_substituido))
\* an orphan end marker in paragraph 0 and a well-formed section after it
C14_Testemunha ==
    /\ MapeadorChamado
    /\ FimOrfao(doc_substituido, <<"H", "O", "R", "A", "S", "_", "E", "X", "T", "R", "A", "S">>, 0)
    /\ BemFormadaApos(doc_substituido, <<"I", "N", "S", "A", "L", "U", "B", "R", "I", "D", "A", "D", "E">>, 0)
    /\ DOMAIN secoes_no_documento = {<<"I", "N", "S", "A", "L", "U", "B", "R", "I", "D", "A", "D", "E">>}

----------------------------------------------------------------------------
(* A boundary once closed                                                  *)

Minimo(S) == CHOOSE x \in S : \A y \in S : x <= y
\* the end markers of id at or after its first start marker
FinsAposOPrimeiroInicio(d, id) ==
    {k \in ParagrafosComFim(d, id) : k >= Minimo(ParagrafosComInicio(d, id))}
\* id is opened and then closed somewhere in d, with no other start marker
\* of id while it is open
FechadaUmaVez(d, id) ==
    /\ ParagrafosComInicio(d, id) # {}
    /\ FinsAposOPrimeiroInicio(d, id) # {}
    /\ \A j \in ParagrafosComInicio(d, id) :
           \/ j = Minimo(ParagrafosComInicio(d, id))
           \/ j > Minimo(FinsAposOPrimeiroInicio(d, id))
\* the boundary recorded when id was closed for the first time
PrimeiroLimite(d, id) ==
    Limite(Minimo(ParagrafosComInicio(d, id)), Minimo(FinsAposOPrimeiroInicio(d, id)),
           FALSE)

\* C15: the boundary recorded when an id is closed for the first time is the
\* boundary of the id in the mapper's result: a start marker of the same id in
\* a later paragraph neither reopens the section nor replaces that boundary
C15_FechadaNaoReabre ==
    MapeadorChamado =>
        \A id \in IdsComInicio(doc_substituido) :
            FechadaUmaVez(doc_substituido, id)
                => /\ id \in DOMAIN secoes_no_documento
                   /\ secoes_no_documento[id] = PrimeiroLimite(doc_substituido, id)

----------------------------------------------------------------------------
(* The title fallback                                                      *)

\* some paragraph of d holds a start marker or an end marker
TemMarcadorExplicito(d) == IdsComInicio(d) \cup IdsComFim(d) # {}
SemTitulos(m) == ~m.por_titulos

\* C16: when the mapper is called on a document that holds a start marker or
\* an end marker in some paragraph, its result does not come from the title
\* detection
C16_TitulosSoSemMarcadores ==
    (MapeadorChamado /\ TemMarcadorExplicito(doc_substituido))
        => SemTitulos(MapearSecoesNoDocumento(doc_substituido, <<>>))

----------------------------------------------------------------------------
(* The cleanup pass                                                        *)

\* C17: once the section step of a run is over, the cleanup pass has been
\* executed, for every active set and every mapping
C17_LimpezaSempre ==
    AposSecoes => limpeza_executada

----------------------------------------------------------------------------
(* Nested start markers of one id                                          *)

\* a start marker of id in paragraph j while the section that a start marker
\* of an earlier paragraph i opened has met no end marker yet
AbertaDuasVezes(d, id) ==
    \E i \in ParagrafosComInicio(d, id) : \E j \in ParagrafosComInicio(d, id) :
        i < j /\ \A k \in i..(j - 1) : ~TemFim(d, id, k)

\* C18: when the mapper is called on a document with nested start markers of
\* one id, the run ends in an error that reaches the caller and nothing is saved
C18_InicioAninhadoFalha ==
    (MapeadorChamado /\ \E id \in IdsComInicio(doc_substituido) :
                            AbertaDuasVezes(doc_substituido, id))
        => (pc = "erro" /\ erro # "" /\ ~salvo)

----------------------------------------------------------------------------
(* Boundaries of two ids over one paragraph                                *)

\* the boundaries of a and b in m share a paragraph
Sobrepostas(m, a, b) ==
    a # b /\ m[a].inicio <= m[b].fim /\ m[b].inicio <= m[a].fim
\* what the mapper's result and warnings can say of a section: left open at
\* the end of the document (lines 427-440), end marker without section (line 424)
Sinalizada(res, id) == res.mapeamento[id].incompleta \/ id \in res.orfaos
SobreposicoesSinalizadas(d, res) ==
    \A a \in DOMAIN res.mapeamento : \A b \in DOMAIN res.mapeamento :
        (/\ BemFormadaApos(d, a, 0 - 1)
         /\ BemFormadaApos(d, b, 0 - 1)
         /\ Sobrepostas(res.mapeamento, a, b))
            => (Sinalizada(res, a) \/ Sinalizada(res, b))

\* C19: when the mapper returns, for two ids with one start and one end
\* marker each, boundaries that share a paragraph, its result marks one of the
\* two sections instead of giving both as plain boundaries
C19_SobreposicaoSinalizada ==
    (MapeadorChamado /\ pc = "validar")
        => SobreposicoesSinalizadas(doc_substituido, MapearPorMarcadores(doc_substituido))

----------------------------------------------------------------------------
(* Required fields and strict mode                                         *)

\* the run was aborted by the check of required fields (lines 1398-1403)
AbortadaPorObrigatorio == pc = "erro" /\ erro = "DadosError"
FaltaObrigatorioSemModoEstrito ==
    ~modo_estrito /\ campos_obrigatorios_ausentes # {}
SoAbortaEmModoEstrito == AbortadaPorObrigatorio => modo_estrito
SemModoEstritoCompleta == FaltaObrigatorioSemModoEstrito => pc # "erro"
SalvoEContado ==
    (FaltaObrigatorioSemModoEstrito /\ pc \in {"resumo", "fim"})
        => /\ salvo
           /\ estatisticas_processamento.campos_obrigatorios_ausentes
                  = Cardinality(campos_obrigatorios_ausentes)
\* the marker of the required field nome is in the text of some paragraph of d
MarcadorNoDocumento(d, nome) ==
    \E i \in 1..Len(d) : Contem(TextoDe(d[i]), MarcadorObrigatorio(nome))
MarcadorNaSaida ==
    (FaltaObrigatorioSemModoEstrito /\ salvo)
        => \A nome \in campos_obrigatorios_ausentes : MarcadorNoDocumento(doc, nome)

\* C20: only a run in strict mode is aborted for a required field the record
\* lacks; without strict mode the run with such a field ends without error,
\* the output is saved, the statistics count the field as missing and
\* required, and the saved document holds the marker of the field
C20_ObrigatorioSoAbortaEmModoEstrito ==
    /\ SoAbortaEmModoEstrito
    /\ SemModoEstritoCompleta
    /\ SalvoEContado
    /\ MarcadorNaSaida


----------------------------------------------------------------------------
(* Runs of several documents                                               *)

\* main returned: after the summary (return 0), or from one of the except
\* clauses around the loop over the records (lines 300-329, return 1)
MainRetornou == pc \in {"fim", "erro"}

\* C21: when main returns no record is left unprocessed: the failure of the
\* assembly of one record's document does not end the loop over the records
C21_FalhaNaoParaOLote ==
    MainRetornou => pendentes = <<>>

----------------------------------------------------------------------------
(* The textual evaluator of conditions (AvaliadorCondicoes)                *)

\* \w of the regular expressions
EhPalavra(c) == EhMaiuscula(c) \/ EhMinuscula(c) \/ EhDigito(c) \/ c = "_"

\* \b at offset i of s: a word character on exactly one side
Fronteira(s, i) ==
    (i > 0 /\ EhPalavra(s[i])) # (i < Len(s) /\ EhPalavra(s[i + 1]))

\* re.search(r'\bp\b', s) for a word p
TemPalavra(s, p) ==
    \E i \in 0..(Len(s) - Len(p)) :
        Slice(s, i, i + Len(p)) = p /\ Fronteira(s, i) /\ Fronteira(s, i + Len(p))

\* re.search(r'\b__\w+__\b', s)
TemDunder(s) ==
    \E i \in 0..Len(s) : \E j \in (i + 5)..Len(s) :
        /\ Fronteira(s, i) /\ Fronteira(s, j)
        /\ \A k \in (i + 1)..j : EhPalavra(s[k])
        /\ Slice(s, i, i + 2) = <<"_", "_">> /\ Slice(s, j - 2, j) = <<"_", "_">>

\* self._danger_patterns without the dunder pattern
PalavrasPerigosas ==
    {<<"i", "m", "p", "o", "r", "t">>, <<"e", "x", "e", "c">>, <<"e", "v", "a", "l">>, <<"c", "o", "m", "p", "i", "l", "e">>, <<"g", "l", "o", "b", "a", "l", "s">>, <<"l", "o", "c", "a", "l", "s">>,
     <<"g", "e", "t", "a", "t", "t", "r">>, <<"s", "e", "t", "a", "t", "t", "r">>, <<"d", "e", "l", "a", "t", "t", "r">>, <<"o", "p", "e", "n">>, <<"f", "i", "l", "e">>, <<"s", "y", "s", "t", "e", "m">>,
     <<"o", "s">>, <<"s", "y", "s">>}

SemPadraoPerigoso(minuscula) ==
    ~TemDunder(minuscula) /\ \A p \in PalavrasPerigosas : ~TemPalavra(minuscula, p)
\* AvaliadorCondicoes.verificar_seguranca
VerificarSeguranca(expressao) == SemPadraoPerigoso(Lower(expressao))

\* the outcome of an evaluation: the exception raised or the value, whether a
\* comparison was evaluated, and whether eval was called
Resultado(err, val, comparou, dinamica) ==
    [err |-> err, val |-> val, comparou |-> comparou, dinamica |-> dinamica]
Retorna(b) == Resultado("", b, FALSE, FALSE)

\* the offset where the run of word characters (of blanks) that starts at
\* offset i ends
FimDaPalavra(s, i) ==
    CHOOSE j \in i..Len(s) :
        (\A k \in (i + 1)..j : EhPalavra(s[k])) /\ (j = Len(s) \/ ~EhPalavra(s[j + 1]))
FimDosEspacos(s, i) ==
    CHOOSE j \in i..Len(s) :
        (\A k \in (i + 1)..j : EhEspaco(s[k])) /\ (j = Len(s) \/ ~EhEspaco(s[j + 1]))
\* [=!<>]=? at offset i
FimDoOperador(s, i) ==
    IF i < Len(s) /\ s[i + 1] \in {"=", "!", "<", ">"}
    THEN (IF i + 1 < Len(s) /\ s[i + 2] = "=" THEN i + 2 ELSE i + 1)
    ELSE i
\* ['"]? at offset i
Aspa(s, i) == IF i < Len(s) /\ s[i + 1] \in {"'", "\""} THEN 1 ELSE 0

\* self._pattern_comparacao.match(s): (\w+)\s*([=!<>]=?)\s*(['"]?)(\w+)\3
CasaValor(s, a, b, c, d, f) ==
    [ok |-> /\ a > 0 /\ c > b /\ f > d
            /\ (d > FimDosEspacos(s, c) => (f < Len(s) /\ s[f + 1] = s[d])),
     campo |-> Slice(s, 0, a), operador |-> Slice(s, b, c), valor |-> Slice(s, d, f)]
CasaAspa(s, a, b, c, d) == CasaValor(s, a, b, c, d, FimDaPalavra(s, d))
CasaOperador(s, a, b, c) ==
    CasaAspa(s, a, b, c, FimDosEspacos(s, c) + Aspa(s, FimDosEspacos(s, c)))
CasaCampo(s, a, b) == CasaOperador(s, a, b, FimDoOperador(s, b))
CasaComparacao(s) == CasaCampo(s, FimDaPalavra(s, 0), FimDosEspacos(s, FimDaPalavra(s, 0)))

\* the key of OPERADORES_SEGUROS that a matched operator is
OperadorSeguro(o) ==
    CASE o = <<"=", "=">> -> "=="
      [] o = <<"!", "=">> -> "!="
      [] o = <<"<">> -> "<"
      [] o = <<"<", "=">> -> "<="
      [] o = <<">">> -> ">"
      [] o = <<">", "=">> -> ">="
      [] OTHER -> ""

\* OPERADORES_SEGUROS[operador](_converter_valor(campo, valores[campo]),
\*                              _converter_valor(campo, valor))
Comparado(r) == Resultado(r.err, r.val, TRUE, FALSE)
CompararConvertidos(operador, valor_campo, valor) ==
    Comparado(AplicarOperador(operador, ConverterValor(valor_campo),
                              ConverterValor(PyStr(valor))))
CompararCasado(m, valores) ==
    IF ~NoRegistro(m.campo, valores) THEN Retorna(FALSE)
    ELSE IF OperadorSeguro(m.operador) = "" THEN Retorna(FALSE)
    ELSE CompararConvertidos(OperadorSeguro(m.operador), valores[m.campo], m.valor)

\* self._pattern_operador_logico.match(s): (AND|OR)\((.*?)\), IGNORECASE
PrefixoLogico(minuscula) ==
    IF StartsWith(minuscula, <<"a", "n", "d">> \o <<"(">>) THEN 4
    ELSE IF StartsWith(minuscula, <<"o", "r">> \o <<"(">>) THEN 3 ELSE 0
CasaLogico(s) ==
    PrefixoLogico(Lower(s)) > 0
        /\ \E k \in (PrefixoLogico(Lower(s)) + 1)..Len(s) : s[k] = ")"
PrimeiroIndice(s, c, ini) ==
    CHOOSE k \in ini..Len(s) : s[k] = c /\ \A j \in ini..(k - 1) : s[j] # c
\* match_logico.group(1).upper() and match_logico.group(2)
OperadorLogico(s) == IF PrefixoLogico(Lower(s)) = 4 THEN "and" ELSE "or"
ArgumentosLogicos(s, p) == Slice(s, p, PrimeiroIndice(s, ")", p + 1) - 1)

\* s.split(c)
RECURSIVE Split(_, _)
Split(s, c) ==
    IF \A i \in 1..Len(s) : s[i] # c THEN <<s>>
    ELSE <<Slice(s, 0, PrimeiroIndice(s, c, 1) - 1)>>
            \o Split(SliceFrom(s, PrimeiroIndice(s, c, 1)), c)

\* the loop over the conditions of AND(...) / OR(...): the first exception
\* leaves it, otherwise all() / any() of the results
PrimeiraFalha(res) ==
    CHOOSE k \in 1..Len(res) : res[k].err # "" /\ \A j \in 1..(k - 1) : res[j].err = ""
AteAFalha(res, k) ==
    Resultado(res[k].err, FALSE, \E i \in 1..k : res[i].comparou,
              \E i \in 1..k : res[i].dinamica)
CombinarTextual(tipo, res) ==
    IF \E i \in 1..Len(res) : res[i].err # "" THEN AteAFalha(res, PrimeiraFalha(res))
    ELSE Resultado("", AplicarOperadorLogico(tipo, [i \in 1..Len(res) |-> res[i].val]),
                   \E i \in 1..Len(res) : res[i].comparou,
                   \E i \in 1..Len(res) : res[i].dinamica)

\* eval(expressao, {"__builtins__": {}}, contexto): the value is not modelled
AvaliacaoDinamica == Resultado("", FALSE, FALSE, TRUE)

\* AvaliadorCondicoes.avaliar
RECURSIVE Avaliar(_, _)
AvaliarArgumentos(condicoes, registro) ==
    [i \in 1..Len(condicoes) |-> Avaliar(Strip(condicoes[i]), registro)]
AvaliarReconhecida(expressao, registro) ==
    IF CasaLogico(expressao)
    THEN CombinarTextual(OperadorLogico(expressao),
            AvaliarArgumentos(
                Split(ArgumentosLogicos(expressao, PrefixoLogico(Lower(expressao))), ","),
                registro))
    ELSE IF CasaComparacao(expressao).ok
    THEN CompararCasado(CasaComparacao(expressao), registro)
    ELSE AvaliacaoDinamica
Avaliar(expressao, registro) ==
    IF expressao = <<>> THEN Retorna(TRUE)
    ELSE IF ~VerificarSeguranca(expressao) THEN Resultado("ValueError", FALSE, FALSE, FALSE)
    ELSE IF Strip(expressao) = <<"T", "r", "u", "e">> THEN Retorna(TRUE)
    ELSE IF Strip(expressao) = <<"F", "a", "l", "s", "e">> THEN Retorna(FALSE)
    ELSE AvaliarReconhecida(expressao, registro)

\* the except clause of avaliar_condicao: valor_padrao instead of the exception
ComValorPadrao(r, valor_padrao) ==
    IF r.err # "" THEN Resultado("", valor_padrao, r.comparou, r.dinamica) ELSE r

\* AvaliadorCondicoes.avaliar_condicao
RECURSIVE AvaliarCondicaoTextual(_, _, _)
AvaliarCondicoesTextuais(condicoes, valores, valor_padrao) ==
    [i \in 1..Len(condicoes) |->
        AvaliarCondicaoTextual(Strip(condicoes[i]), valores, valor_padrao)]
AvaliarTextualReconhecida(expressao, valores, valor_padrao) ==
    IF CasaLogico(expressao)
    THEN CombinarTextual(OperadorLogico(expressao),
            AvaliarCondicoesTextuais(
                Split(ArgumentosLogicos(expressao, PrefixoLogico(Lower(expressao))), ","),
                valores, valor_padrao))
    ELSE IF CasaComparacao(expressao).ok
    THEN ComValorPadrao(CompararCasado(CasaComparacao(expressao), valores), valor_padrao)
    ELSE Retorna(valor_padrao)
AvaliarCondicaoTextual(expressao, valores, valor_padrao) ==
    IF expressao = <<>> \/ Strip(expressao) = <<"T", "r", "u", "e">> THEN Retorna(TRUE)
    ELSE IF Strip(expressao) = <<"F", "a", "l", "s", "e">> THEN Retorna(FALSE)
    ELSE AvaliarTextualReconhecida(expressao, valores, valor_padrao)

\* the text of a structured condition: field <op> value, AND(...), OR(...)
TextoDoOperador(op) ==
    CASE op = "==" -> <<"=", "=">>
      [] op = "!=" -> <<"!", "=">>
      [] op = "<"  -> <<"<">>
      [] op = "<=" -> <<"<", "=">>
      [] op = ">"  -> <<">">>
      [] op = ">=" -> <<">", "=">>
Comparadores == {"==", "!=", "<", "<=", ">", ">="}
EhComparacaoTextual(c) ==
    /\ c.chaves = {"campo", "operador", "valor"}
    /\ c.operador \in Comparadores /\ c.valor.t = "str"
TextoDaComparacao(c) ==
    c.campo \o <<" ">> \o TextoDoOperador(c.operador) \o <<" ">> \o c.valor.s
RECURSIVE JuntarComVirgula(_)
JuntarComVirgula(textos) ==
    IF Len(textos) = 1 THEN textos[1]
    ELSE textos[1] \o <<",", " ">> \o JuntarComVirgula(Tail(textos))
EhLogicaTextual(c) ==
    /\ "tipo" \in c.chaves /\ c.tipo \in {"and", "or"} /\ SubCondicoes(c) # <<>>
    /\ \A i \in 1..Len(SubCondicoes(c)) : EhComparacaoTextual(SubCondicoes(c)[i])
TextoDaLogica(c) ==
    (IF c.tipo = "and" THEN <<"A", "N", "D">> ELSE <<"O", "R">>) \o <<"(">>
        \o JuntarComVirgula([i \in 1..Len(SubCondicoes(c)) |->
                                TextoDaComparacao(SubCondicoes(c)[i])])
        \o <<")">>
TemFormaTextual(c) == EhComparacaoTextual(c) \/ EhLogicaTextual(c)
ExpressaoDe(c) == IF EhComparacaoTextual(c) THEN TextoDaComparacao(c) ELSE TextoDaLogica(c)

\* a condition is rejected without being evaluated
RejeitadaSemAvaliar(r) == r.err = "ValueError" /\ ~r.comparou /\ ~r.dinamica
RejeitadaPelosDoisMetodos(expressao, registro) ==
    /\ RejeitadaSemAvaliar(Avaliar(expressao, registro))
    /\ RejeitadaSemAvaliar(AvaliarCondicaoTextual(expressao, registro, FALSE))
RegraInsegura(d) ==
    d.tem_regra /\ TemFormaTextual(d.regra) /\ ~VerificarSeguranca(ExpressaoDe(d.regra))

\* C22: the text of a rule that holds a token of the deny-list is rejected with
\* ValueError by avaliar and by avaliar_condicao, with no comparison evaluated
\* and no call of eval, also when the token is in an argument of AND(...)
C22_TokenProibidoRejeitado ==
    \A k \in 1..Len(definicoes_secoes) :
        RegraInsegura(definicoes_secoes[k])
            => RejeitadaPelosDoisMetodos(ExpressaoDe(definicoes_secoes[k].regra), dados)

----------------------------------------------------------------------------
(* Formatting of numeric values                                            *)

InitFormatos ==
    \/ InitDoProcesso(RegistrosFormatos, {<<>>}, TemplatesFormatos, Provedores, {FALSE},
                      {<<>>}, {FALSE}, BOOLEAN)
    \/ InitLoteDeMain(RegistrosFormatos, {<<>>}, TemplatesFormatos,
                      {"AdaptadorModeloRelacional"}, {FALSE}, RegistrosFormatos)
SpecFormatos == InitFormatos /\ [][Next]_vars

\* the digits of n grouped in threes with "."
RECURSIVE Milhares(_)
Milhares(n) ==
    IF n < 1000 THEN StrNat(n)
    ELSE (IF n % 1000 < 10 THEN Milhares(n \div 1000) \o <<".", "0", "0">>
          ELSE IF n % 1000 < 100 THEN Milhares(n \div 1000) \o <<".", "0">>
          ELSE Milhares(n \div 1000) \o <<".">>) \o StrNat(n % 1000)
\* "R$ ", the grouped integer part, "," and exactly two decimal digits
TextoMonetario(c) ==
    <<"R", "$", " ">> \o Milhares(c \div 100) \o <<",">>
        \o <<Digitos[((c % 100) \div 10) + 1], Digitos[(c % 10) + 1]>>

\* the one placeholder of the template's paragraph is the field nome, and the
\* record holds a number for it
CampoNumerico(nome) ==
    /\ NoRegistro(nome, dados) /\ EhNumero(dados[nome])
    /\ Len(Tokens(TextoDe(template[1]))) = 1
    /\ NomeDoToken(Tokens(TextoDe(template[1]))[1]) = nome
Substituiu == erro = "" /\ doc_substituido # <<>>
\* the paragraph reads: the text before the token m, then texto, then nothing
\* else than text that followed the token
EscritoEm(paragrafo, original, m, texto) ==
    /\ StartsWith(paragrafo, Slice(original, 0, m.inicio) \o texto)
    /\ EndsWith(SliceFrom(original, m.fim),
                SliceFrom(paragrafo, m.inicio + Len(texto)))
\* the substitution wrote texto where the placeholder was
EscritoNoLugar(texto) ==
    EscritoEm(TextoDe(doc_substituido[1]), TextoDe(template[1]),
              Tokens(TextoDe(template[1]))[1], texto)

\* C23: a numeric value of a monetary field is written as "R$ ", the integer
\* part grouped in thousands with "." and two decimal digits after ",", with
\* the pt_BR locale and without it
C23_FormatoMonetario ==
    (Substituiu /\ CampoNumerico(<<"v", "a", "l", "o", "r">>))
        => EscritoNoLugar(TextoMonetario(Centesimos(dados[<<"v", "a", "l", "o", "r">>])))
\* 1234.5 was rendered on a host without the pt_BR locale
C23_Testemunha ==
    /\ Substituiu /\ CampoNumerico(<<"v", "a", "l", "o", "r">>)
    /\ ~locale_pt_br /\ dados[<<"v", "a", "l", "o", "r">>] = PyFloat(123450)
    /\ TextoDe(doc_substituido[1]) = <<"R", "$", " ", "1", ".", "2", "3", "4", ",", "5", "0">>

----------------------------------------------------------------------------
(* The cleanup pass                                                        *)

\* the text is one section-marker token and nothing else
UmMarcadorSo(texto, tokens) ==
    /\ Len(tokens) = 1
    /\ tokens[1].inicio = 0 /\ tokens[1].fim = Len(texto)
    /\ EhMarcadorDeSecao(NomeDoToken(tokens[1]))
\* the paragraph carries text that is not just one marker token
TemTextoProprio(p) ==
    /\ Strip(TextoDe(p)) # <<>>
    /\ ~UmMarcadorSo(Strip(TextoDe(p)), Tokens(Strip(TextoDe(p))))

\* C24: the cleanup pass removes no paragraph that carries text besides one
\* marker token: the paragraphs with such text are the same, in the same
\* order, before the cleanup and after it
C24_LimpezaSoRemoveMarcadores ==
    limpeza_executada => SelectSeq(doc, TemTextoProprio) = SelectSeq(doc_podado, TemTextoProprio)

----------------------------------------------------------------------------
(* The textual and the structured evaluator                                *)

\* the rule of the definition is one comparison field <op> value
EhFolhaDeComparacao(d) == d.tem_regra /\ EhComparacaoTextual(d.regra)
\* the outcome t of the textual evaluator is the outcome the section
\* activation engine had for the definition d: the same value, or both failed
MesmoResultado(t, d) ==
    IF d.id \in erros_motor THEN t.err # ""
    ELSE t.err = "" /\ (t.val <=> NaLista(d.id, secoes_motor))

\* C25: for a rule that is one comparison field <op> value, avaliar_condicao
\* on the text of the rule gives what MotorRegras gave on the rule: the same
\* boolean, or both fail
C25_MesmoResultadoNosDoisAvaliadores ==
    Avaliado =>
        \A k \in 1..Len(definicoes_secoes) :
            EhFolhaDeComparacao(definicoes_secoes[k]) =>
                MesmoResultado(
                    AvaliarCondicaoTextual(ExpressaoDe(definicoes_secoes[k].regra),
                                           dados, FALSE),
                    definicoes_secoes[k])

----------------------------------------------------------------------------
(* The active sections of the pruner                                       *)

\* C26: the active sections _processar_secoes_condicionais worked with are
\* the list avaliar_secoes_ativas returned for the record, the empty list
\* included
C26_AtivasSaoAsDoMotor ==
    AposSecoes => secoes_ativas = secoes_motor

----------------------------------------------------------------------------
(* The metadata lookup on the injected provider                            *)

\* C27: with the MotorRegras instance main injects as motor_regras, the
\* lookup obter_campo_por_nome of the substitution never ends the run with an
\* exception
C27_ConsultaNaoEncerraARodada ==
    provedor = "MotorRegras" => erro # "AttributeError"

----------------------------------------------------------------------------
(* The placeholder sets                                                    *)

\* the substitution pass of this document is over, whatever its outcome
AposSubstituicao == pc \in {"secoes", "validar", "salvar", "resumo", "fim", "erro"}
ConjuntosCoerentes(encontrados, substituidos, ausentes, obrigatorios) ==
    /\ substituidos \cap ausentes = {}
    /\ substituidos \cup ausentes = encontrados
    /\ obrigatorios \subseteq ausentes
    /\ Cardinality(substituidos) + Cardinality(ausentes) = Cardinality(encontrados)

\* C28: after a run the substituted and the missing placeholders are disjoint,
\* together they are the discovered ones, and the required missing ones are
\* among the missing ones
C28_ConjuntosCoerentes ==
    AposSubstituicao =>
        ConjuntosCoerentes(campos_encontrados, campos_substituidos, campos_ausentes,
                           campos_obrigatorios_ausentes)
\* a run that ended with a substituted placeholder and a required missing one
C28_Testemunha ==
    /\ pc = "fim"
    /\ campos_substituidos # {} /\ campos_obrigatorios_ausentes # {}
    /\ ConjuntosCoerentes(campos_encontrados, campos_substituidos, campos_ausentes,
                          campos_obrigatorios_ausentes)

----------------------------------------------------------------------------
(* One processor instance for several documents                            *)

\* the document holds no section marker and no paragraph that scores as the
\* title of a section
SemLimitesProprios(d) == ~TemMarcadorExplicito(d) /\ Identificadas(PontuacoesDe(d)) = {}

\* C29: for a document without markers and without title paragraphs the
\* section step maps no section, prunes nothing and does not fail, also on a
\* processor instance that assembled other documents before
C29_LimitesSoDoDocumento ==
    (doc_substituido # <<>> /\ SemLimitesProprios(doc_substituido))
        => /\ ~(erro = "IndexError" /\ doc_podado # <<>>)
           /\ AposSecoes => (DOMAIN secoes_no_documento = {} /\ doc_podado = doc_substituido)

----------------------------------------------------------------------------
(* Values written out in words                                             *)

\* C30: a run that substitutes a field whose metadata asks for the written-out
\* form never ends in the failure of that rendering, for every non-negative
\* number of the record, values of 1000 and more included
C30_ExtensoNuncaFalha ==
    (CampoNumerico(<<"p", "r", "e", "c", "o">>) /\ provedor = "AdaptadorModeloRelacional")
        => erro # "IndexError"

====
